---- MODULE Spec2Model ----
(***************************************************************************)
(* Model of the skipchain service (package skipchain): the block store of  *)
(* every conode, the append engine StoreSkipBlock with its BFT signing     *)
(* rounds, the roster-extension query, the back-fill of higher forward     *)
(* links and the propagation of changed blocks.                            *)
(***************************************************************************)
EXTENDS Integers, Sequences, FiniteSets, TLC

\* ------------------------------------------------------------------ bounds
\* Highest Index an append may produce in the concurrent specifications.
MaxIndex == 4
\* Number of client request slots (StoreSkipBlock calls that can overlap).
MaxCalls == 2
\* Highest Index an append may produce on the single-leader chain.
MaxChainIndex == 9
\* Highest Index an append may produce when two leaders race.
MaxRaceIndex == 2
\* Highest Index an append may produce while the roster is extended, and the
\* number of entries the two follow lists of a conode hold together.
MaxRosterIndex == 2
MaxFollow == 1
\* Number of chains the leader starts while the roster is extended.
MaxChains == 2
\* Highest Index an append may produce on the fault-free chain.
MaxLiveIndex == 4
\* Inputs of the height computation.
MaxHIndex == 30
MaxHBase == 4
\* Signed requests: the highest Index a block is appended to, and the client
\* keys linked to a conode.
MaxAuthIndex == 1
MaxClients == 1
\* Highest Index a block is appended to while the conodes take turns.
MaxTurnIndex == 1
\* Highest Index a block is appended to among the requests that fail.
MaxRejectIndex == 1
\* Highest Index an append may produce on the chain that is read.
MaxUpdateIndex == 2
\* Child chains of one parent block.
MaxChildren == 3
\* Highest Index a block is appended to on the chains with verifiers.
MaxVerifyIndex == 1
\* Child chains a block names when a propagation may still fail.
MaxAborts == 1
\* Highest Index a block is appended to when clients fill in forward links.
MaxReplayIndex == 2
MaxInheritIndex == 2
MaxLinked == 1
MaxByIndex == 2
MaxDownIndex == 1
\* Highest Index a block is appended to while two requests overlap on R0.
MaxFlightIndex == 1
\* Highest Index an append may produce while follow lists are refreshed.
MaxRefreshIndex == 2
\* Highest Index an append may produce before overlapping readers ask.
MaxFetchIndex == 2

\* ------------------------------------------------------------------ values
\* The conodes R0, R1, R2.
Nodes == 0..2

\* A nil SkipBlockID and a nil *SkipBlock.
NullID == [null |-> TRUE]
NoBlock == [none |-> TRUE]
IsNull(id) == id = NullID

ErrorBlockNotFound == "BlockNotFound"
ErrorBlockContent == "BlockContent"
ErrorParameterWrong == "ParameterWrong"
ErrorVerification == "Verification"
ErrorBlockInProgress == "BlockInProgress"
NoError == "ok"

\* random.Bytes(32, random.Stream): the back link of a genesis block.
RandomBytes == {[rnd |-> 0]}

Range(s) == {s[i] : i \in 1..Len(s)}

\* A search that takes an absent conode for the first of the roster.
RosterSearchAny(roster, n) ==
    IF n \in Range(roster)
    THEN (CHOOSE i \in 1..Len(roster) : roster[i] = n) - 1
    ELSE 0

\* Roster.Search(id): the 0-based position of a conode, -1 when absent.
RosterSearch(roster, n) ==
    IF n \in Range(roster)
    THEN (CHOOSE i \in 1..Len(roster) : roster[i] = n) - 1
    ELSE -1

\* The canonical hash covers the immutable fields; the model keeps the hashed
\* content itself, so that different contents have different hashes.
CalculateHash(b) ==
    [Index |-> b.Index, Height |-> b.Height, MaximumHeight |-> b.MaximumHeight,
     BaseHeight |-> b.BaseHeight, BackLinkIDs |-> b.BackLinkIDs,
     VerifierIDs |-> b.VerifierIDs, ParentBlockID |-> b.ParentBlockID,
     GenesisID |-> b.GenesisID, Data |-> b.Data, Roster |-> b.Roster]

updateHash(b) == [b EXCEPT !.Hash = CalculateHash(b)]

SkipChainID(b) == IF IsNull(b.GenesisID) THEN b.Hash ELSE b.GenesisID

\* A BFT signature names the message and the roster that co-signed it.
BFTSignature(msg, roster) == [Msg |-> msg, Signers |-> roster]
BlockLink(hash, sig) == [Hash |-> hash, Signature |-> sig]
VerifySignature(link, roster) ==
    /\ link.Signature.Msg = link.Hash
    /\ link.Signature.Signers = roster

VerifyForwardSignatures(b) ==
    \A i \in 1..Len(b.ForwardLink) : VerifySignature(b.ForwardLink[i], b.Roster)

GetForwardLen(b) == Len(b.ForwardLink)
AddForward(b, link) == [b EXCEPT !.ForwardLink = Append(@, link)]

\* NewSkipBlock() with the fields a client sets.
NewSkipBlock(roster, data, maxH, baseH, parent) ==
    [Index |-> 0, Height |-> 0, MaximumHeight |-> maxH, BaseHeight |-> baseH,
     BackLinkIDs |-> <<>>, VerifierIDs |-> <<>>, ParentBlockID |-> parent,
     GenesisID |-> NullID, Data |-> data, Roster |-> roster,
     Hash |-> NullID, ForwardLink |-> <<>>, ChildSL |-> <<>>]

\* ------------------------------------------------------------------ state
VARIABLES
    Sbm,            \* Storage.Sbm of every conode: hash -> block
    Follow,         \* Storage.Follow of every conode
    FollowIDs,      \* Storage.FollowIDs of every conode
    AuthSkipchain,  \* the package-level authentication level
    newBlocks,      \* Service.newBlocks of every conode
    Clients,        \* Storage.Clients of every conode
    calls,          \* the StoreSkipBlock calls and their positions
    ht,             \* the height loop of StoreSkipBlock on its own
    blockRequests,  \* Service.blockRequests of every conode: id -> channel
    replies         \* the GetBlockReply messages sent and not yet dealt with

vars == <<Sbm, Follow, FollowIDs, AuthSkipchain, newBlocks, Clients, calls, ht,
         blockRequests, replies>>

Calls == 1..MaxCalls

\* SkipBlockMap.GetByID
GetByID(sbm, id) == IF id \in DOMAIN sbm THEN sbm[id] ELSE NoBlock

\* SkipBlockMap.Store: insert, or merge the new forward links and children
\* into the block already stored.
Store(sbm, sb) ==
    IF sb.Hash \in DOMAIN sbm
    THEN LET old == sbm[sb.Hash]
             newFL == SubSeq(sb.ForwardLink, Len(old.ForwardLink) + 1, Len(sb.ForwardLink))
             newCh == SubSeq(sb.ChildSL, Len(old.ChildSL) + 1, Len(sb.ChildSL))
         IN [sbm EXCEPT ![sb.Hash] =
                [old EXCEPT !.ForwardLink = @ \o newFL, !.ChildSL = @ \o newCh]]
    ELSE [h \in DOMAIN sbm \cup {sb.Hash} |-> IF h = sb.Hash THEN sb ELSE sbm[h]]

IdleCall ==
    [pc |-> "idle", node |-> 0, LatestID |-> NullID, NewBlock |-> NoBlock,
     Signature |-> [nosig |-> TRUE], Authentication |-> 0,
     SkipchainID |-> NullID, SearchPolicy |-> 0, Conode |-> 0,
     Genesis |-> NullID, Index |-> 0, prop |-> NoBlock,
     prev |-> NullID, changed |-> <<>>, queue |-> <<>>, h |-> 0,
     yes |-> {}, no |-> {}, pend |-> {}, msg |-> <<>>, fs |-> NoBlock,
     err |-> NoError, why |-> "", reply |-> NoBlock, Update |-> <<>>]

Init ==
    /\ Sbm = [n \in Nodes |-> <<>>]
    /\ Follow = [n \in Nodes |-> <<>>]
    /\ FollowIDs = [n \in Nodes |-> <<>>]
    /\ AuthSkipchain = 0
    /\ newBlocks = [n \in Nodes |-> {}]
    /\ Clients = [n \in Nodes |-> <<>>]
    /\ calls = [c \in Calls |-> IdleCall]
    /\ ht = [pc |-> "off", Index |-> 0, BaseHeight |-> 0, MaximumHeight |-> 0, Height |-> 0]
    /\ blockRequests = [n \in Nodes |-> <<>>]
    /\ replies = <<>>

\* ------------------------------------------------------------------ helpers
\* Schnorr keys and signatures: a signature names its signer and its message.
NodeKey(n) == [node |-> n]
NoSig == [nosig |-> TRUE]
SignSchnorr(key, m) == [Signer |-> key, Msg |-> m]
VerifySchnorr(pub, m, sig) == sig # NoSig /\ sig.Signer = pub /\ sig.Msg = m

\* Service.authenticate without the loop over the linked clients.
authenticateNoClients(n, m, sig) ==
    \/ VerifySchnorr(NodeKey(n), m, sig)
    \/ \E i \in 1..Len(Follow[n]) : \E si \in Range(Follow[n][i].Roster) :
          VerifySchnorr(NodeKey(si), m, sig)

\* Service.authenticate
authenticate(n, m, sig) ==
    \/ VerifySchnorr(NodeKey(n), m, sig)
    \/ \E i \in 1..Len(Follow[n]) : \E si \in Range(Follow[n][i].Roster) :
          VerifySchnorr(NodeKey(si), m, sig)
    \/ \E i \in 1..Len(Clients[n]) : VerifySchnorr(Clients[n][i], m, sig)

\* Service.verifyBlock without the comparison of the two height parameters.
verifyBlockTall(sb) ==
    /\ sb.MaximumHeight > 0
    /\ sb.BaseHeight > 0
    /\ sb.Index >= 0
    /\ Len(sb.BackLinkIDs) > 0
    /\ sb.Height >= 1
    /\ sb.Height <= sb.MaximumHeight
    /\ sb.Roster # <<>>

\* verifyBlock asking for registered verifiers as well.
verifyBlockRegistered(sb) ==
    /\ sb.MaximumHeight > 0
    /\ sb.BaseHeight > 0
    /\ sb.MaximumHeight <= sb.BaseHeight
    /\ sb.Index >= 0
    /\ Len(sb.BackLinkIDs) > 0
    /\ sb.Height >= 1
    /\ sb.Height <= sb.MaximumHeight
    /\ sb.Roster # <<>>
    /\ \A i \in 1..Len(sb.VerifierIDs) :
          sb.VerifierIDs[i] \in {"VerifyBase", "VerifyRoot", "VerifyControl", "VerifyData"}

\* Service.verifyBlock
verifyBlock(sb) ==
    /\ sb.MaximumHeight > 0
    /\ sb.BaseHeight > 0
    /\ sb.MaximumHeight <= sb.BaseHeight
    /\ sb.Index >= 0
    /\ Len(sb.BackLinkIDs) > 0
    /\ sb.Height >= 1
    /\ sb.Height <= sb.MaximumHeight
    /\ sb.Roster # <<>>

\* The height loop leaving one iteration early.
RECURSIVE HeightLoopShort(_, _, _, _)
HeightLoopShort(index, height, base, max) ==
    IF index % base = 0
    THEN IF height + 1 >= max
         THEN height
         ELSE HeightLoopShort(index \div base, height + 1, base, max)
    ELSE height

\* The height loop of StoreSkipBlock:
\*   for Height = 1; index%BaseHeight == 0; Height++ {
\*       index /= BaseHeight; if Height >= MaximumHeight { break } }
RECURSIVE HeightLoop(_, _, _, _)
HeightLoop(index, height, base, max) ==
    IF index % base = 0
    THEN IF height >= max
         THEN height
         ELSE HeightLoop(index \div base, height + 1, base, max)
    ELSE height

\* The inner loop stopping one level too low.
RECURSIVE WalkBackLow(_, _, _)
WalkBackLow(sbm, pointer, h) ==
    IF pointer = NoBlock
    THEN NoBlock
    ELSE IF pointer.Height < h
         THEN WalkBackLow(sbm, GetByID(sbm, pointer.BackLinkIDs[1]), h)
         ELSE pointer

\* The inner loop of the back-link walk: follow BackLinkIDs[0] until a block
\* of Height >= h+1 is reached; NoBlock when a block is missing.
RECURSIVE WalkBack(_, _, _)
WalkBack(sbm, pointer, h) ==
    IF pointer = NoBlock
    THEN NoBlock
    ELSE IF pointer.Height < h + 1
         THEN WalkBack(sbm, GetByID(sbm, pointer.BackLinkIDs[1]), h)
         ELSE pointer

\* The outer loop of the back-link walk, for the heights h .. height-1.
RECURSIVE BackLinkWalk(_, _, _, _)
BackLinkWalk(sbm, pointer, h, height) ==
    IF h >= height
    THEN <<>>
    ELSE LET p == WalkBack(sbm, pointer, h)
         IN IF p = NoBlock
            THEN <<NoBlock>>
            ELSE <<p.Hash>> \o BackLinkWalk(sbm, p, h + 1, height)

\* newBlockStart locking one source block only: other keys do not count.
newBlockStartPerKey(n, hash) == hash \notin newBlocks[n]

\* newBlockStart without the test of the calls under way.
newBlockStartNoTest(n, hash) == TRUE

\* Service.newBlockStart: TRUE when the lock can be taken.
newBlockStart(n, hash) == hash \notin newBlocks[n] /\ newBlocks[n] = {}

\* Service.blockIsFriendly without the loop over Storage.FollowIDs.
blockIsFriendlyNoIDs(n, sbm, sb) ==
    \/ AuthSkipchain = 0
    \/ GetByID(sbm, SkipChainID(sb)) # NoBlock
    \/ /\ AuthSkipchain = 1
       /\ \E index \in 1..Len(sb.Roster) :
            IF sb.Roster[index] # n
            THEN \E k \in 1..Len(Follow[n]) : sb.Roster[index] \in Range(Follow[n][k].Roster)
            ELSE Len(sb.Roster) = 1 \/ index = 1
    \/ AuthSkipchain \notin {0, 1}

\* Service.blockIsFriendly, against the store sbm of conode n.
blockIsFriendly(n, sbm, sb) ==
    \/ AuthSkipchain = 0
    \/ GetByID(sbm, SkipChainID(sb)) # NoBlock
    \/ \E i \in 1..Len(FollowIDs[n]) : FollowIDs[n][i] = SkipChainID(sb)
    \/ /\ AuthSkipchain = 1
       /\ \E index \in 1..Len(sb.Roster) :
            IF sb.Roster[index] # n
            THEN \E k \in 1..Len(Follow[n]) : sb.Roster[index] \in Range(Follow[n][k].Roster)
            ELSE Len(sb.Roster) = 1 \/ index = 1
    \/ AuthSkipchain \notin {0, 1}

\* The union of the rosters of the blocks of a propagation message.
RosterUnion(blocks) == UNION {Range(blocks[i].Roster) : i \in 1..Len(blocks)}

\* A call returns: the deferred newBlockEnd releases the lock.
Return(call, err, why, reply) ==
    [call EXCEPT !.pc = "done", !.err = err, !.why = why, !.reply = reply,
                 !.yes = {}, !.no = {}, !.pend = {}, !.msg = <<>>,
                 !.queue = <<>>, !.h = 0, !.fs = NoBlock]

\* newBlockEnd leaving the entry of the block in the map.
newBlockEndKeep(nb, n, hash) == nb

\* Service.newBlockEnd
newBlockEnd(nb, n, hash) == [nb EXCEPT ![n] = @ \ {hash}]

\* The key of the append lock of a call: prev for an append, prop for genesis.
LockKey(call) == IF IsNull(call.LatestID) THEN call.prop.Hash ELSE call.prev

\* ------------------------------------------------------------------ StoreSkipBlock
\* The genesis branch without the reset of the fields a client may have set.
GenesisInitKeep(nb, bl) ==
    updateHash([nb EXCEPT !.Index = 0,
                          !.Height = nb.MaximumHeight,
                          !.BackLinkIDs = <<bl>>])

\* The genesis branch of StoreSkipBlock: the fields the service sets itself.
GenesisInit(nb, bl) ==
    updateHash([nb EXCEPT !.Index = 0,
                          !.Height = nb.MaximumHeight,
                          !.ForwardLink = <<>>,
                          !.BackLinkIDs = <<bl>>,
                          !.GenesisID = NullID])

\* StoreSkipBlock with the authentication of lines 105-114 before the leader gate.
StoreSkipBlockEnterAuthFirst(c, n, latest, nb, sig) ==
    /\ calls[c].pc \in {"idle", "done"}
    /\ LET call == [IdleCall EXCEPT !.node = n, !.LatestID = latest, !.NewBlock = nb,
                                    !.Signature = sig]
       IN IF AuthSkipchain > 0 /\ sig = NoSig
          THEN calls' = [calls EXCEPT ![c] = Return(call, ErrorParameterWrong, "cannot create new skipblock without authentication", NoBlock)]
          ELSE IF AuthSkipchain > 0 /\ ~authenticate(n, CalculateHash(nb), sig)
          THEN calls' = [calls EXCEPT ![c] = Return(call, ErrorParameterWrong, "wrong signature for this skipchain", NoBlock)]
          ELSE IF n # nb.Roster[1]
          THEN calls' = [calls EXCEPT ![c] = Return(call, ErrorParameterWrong, "only leader is allowed to add blocks", NoBlock)]
          ELSE IF IsNull(latest)
          THEN \E bl \in RandomBytes :
                 LET prop == GenesisInit(nb, bl)
                 IN IF ~verifyBlock(prop)
                    THEN calls' = [calls EXCEPT ![c] = Return(call, ErrorParameterWrong, "verifyBlock", NoBlock)]
                    ELSE calls' = [calls EXCEPT ![c] = [call EXCEPT !.pc = "checked", !.prop = prop]]
          ELSE LET prev == GetByID(Sbm[n], latest)
               IN IF prev = NoBlock
                  THEN calls' = [calls EXCEPT ![c] = Return(call, ErrorBlockNotFound, "Didn't find latest block", NoBlock)]
                  ELSE IF RosterSearch(prev.Roster, n) < 0
                  THEN calls' = [calls EXCEPT ![c] = Return(call, ErrorBlockContent, "We're not responsible for latest block", NoBlock)]
                  ELSE IF Len(prev.ForwardLink) > 0
                  THEN calls' = [calls EXCEPT ![c] = Return(call, ErrorBlockContent, "the latest block already has a follower", NoBlock)]
                  ELSE calls' = [calls EXCEPT ![c] =
                                   [call EXCEPT !.pc = "checked", !.prop = nb, !.prev = latest]]
    /\ UNCHANGED <<Sbm, Follow, FollowIDs, AuthSkipchain, newBlocks, Clients, ht, blockRequests, replies>>

\* StoreSkipBlock up to the precondition checks (leader gate, authentication,
\* genesis initialisation and verifyBlock, or the lookup of the latest block).
StoreSkipBlockEnter(c, n, latest, nb, sig) ==
    /\ calls[c].pc \in {"idle", "done"}
    /\ LET call == [IdleCall EXCEPT !.node = n, !.LatestID = latest, !.NewBlock = nb,
                                    !.Signature = sig]
       IN IF n # nb.Roster[1]
          THEN calls' = [calls EXCEPT ![c] = Return(call, ErrorParameterWrong, "only leader is allowed to add blocks", NoBlock)]
          ELSE IF AuthSkipchain > 0 /\ sig = NoSig
          THEN calls' = [calls EXCEPT ![c] = Return(call, ErrorParameterWrong, "cannot create new skipblock without authentication", NoBlock)]
          ELSE IF AuthSkipchain > 0 /\ ~authenticate(n, CalculateHash(nb), sig)
          THEN calls' = [calls EXCEPT ![c] = Return(call, ErrorParameterWrong, "wrong signature for this skipchain", NoBlock)]
          ELSE IF IsNull(latest)
          THEN \E bl \in RandomBytes :
                 LET prop == GenesisInit(nb, bl)
                 IN IF ~verifyBlock(prop)
                    THEN calls' = [calls EXCEPT ![c] = Return(call, ErrorParameterWrong, "verifyBlock", NoBlock)]
                    ELSE calls' = [calls EXCEPT ![c] = [call EXCEPT !.pc = "checked", !.prop = prop]]
          ELSE LET prev == GetByID(Sbm[n], latest)
               IN IF prev = NoBlock
                  THEN calls' = [calls EXCEPT ![c] = Return(call, ErrorBlockNotFound, "Didn't find latest block", NoBlock)]
                  ELSE IF RosterSearch(prev.Roster, n) < 0
                  THEN calls' = [calls EXCEPT ![c] = Return(call, ErrorBlockContent, "We're not responsible for latest block", NoBlock)]
                  ELSE IF Len(prev.ForwardLink) > 0
                  THEN calls' = [calls EXCEPT ![c] = Return(call, ErrorBlockContent, "the latest block already has a follower", NoBlock)]
                  ELSE calls' = [calls EXCEPT ![c] =
                                   [call EXCEPT !.pc = "checked", !.prop = nb, !.prev = latest]]
    /\ UNCHANGED <<Sbm, Follow, FollowIDs, AuthSkipchain, newBlocks, Clients, ht, blockRequests, replies>>

\* The inherited fields taking the GenesisID field of prev as it is.
AppendInitOwnID(nb, prev) ==
    [nb EXCEPT !.MaximumHeight = prev.MaximumHeight,
               !.BaseHeight = prev.BaseHeight,
               !.ParentBlockID = NullID,
               !.VerifierIDs = prev.VerifierIDs,
               !.Index = prev.Index + 1,
               !.GenesisID = prev.GenesisID]

\* AppendInit keeping the verifiers the client wrote into the new block.
AppendInitKeep(nb, prev) ==
    [nb EXCEPT !.MaximumHeight = prev.MaximumHeight,
               !.BaseHeight = prev.BaseHeight,
               !.ParentBlockID = NullID,
               !.Index = prev.Index + 1,
               !.GenesisID = SkipChainID(prev)]

\* The append branch of StoreSkipBlock: the fields a new block inherits from
\* the block it is appended to.
AppendInit(nb, prev) ==
    [nb EXCEPT !.MaximumHeight = prev.MaximumHeight,
               !.BaseHeight = prev.BaseHeight,
               !.ParentBlockID = NullID,
               !.VerifierIDs = prev.VerifierIDs,
               !.Index = prev.Index + 1,
               !.GenesisID = SkipChainID(prev)]

\* The message of startPropagation: the blocks as they are when it starts.
PropagationMsg(call, sbm, changed) ==
    [i \in 1..Len(changed) |->
        IF changed[i] = call.prop.Hash THEN call.prop ELSE sbm[changed[i]]]

\* StoreSkipBlock from newBlockStart on: the lock, then for a genesis block
\* the parent update, for an append the inherited fields, the height, the
\* back links and the list of roster members to ask.
NewBlockStart(c) ==
    LET call == calls[c]
        n == call.node
    IN
    /\ call.pc = "checked"
    /\ IF ~newBlockStart(n, LockKey(call))
       THEN /\ calls' = [calls EXCEPT ![c] = Return(call, ErrorBlockInProgress, "this skipchain-id is currently processing a block", NoBlock)]
            /\ UNCHANGED <<Sbm, newBlocks>>
       ELSE IF IsNull(call.LatestID)
       THEN LET prop == call.prop
                parent == GetByID(Sbm[n], prop.ParentBlockID)
            IN IF ~IsNull(prop.ParentBlockID) /\ parent = NoBlock
               THEN /\ calls' = [calls EXCEPT ![c] = Return(call, ErrorParameterWrong, "Didn't find parent", NoBlock)]
                    /\ UNCHANGED <<Sbm, newBlocks>>
               ELSE LET sbm == IF IsNull(prop.ParentBlockID)
                               THEN Sbm[n]
                               ELSE [Sbm[n] EXCEPT ![parent.Hash].ChildSL = Append(@, prop.Hash)]
                        changed == IF IsNull(prop.ParentBlockID)
                                   THEN <<prop.Hash>>
                                   ELSE <<parent.Hash, prop.Hash>>
                        msg == PropagationMsg(call, sbm, changed)
                    IN /\ Sbm' = [Sbm EXCEPT ![n] = sbm]
                       /\ newBlocks' = [newBlocks EXCEPT ![n] = @ \cup {LockKey(call)}]
                       /\ calls' = [calls EXCEPT ![c] =
                                      [call EXCEPT !.pc = "prop", !.changed = changed,
                                                   !.msg = msg, !.pend = RosterUnion(msg)]]
       ELSE LET prev == Sbm[n][call.prev]
                index == prev.Index + 1
                height == HeightLoop(index, 1, prev.BaseHeight, prev.MaximumHeight)
                links == BackLinkWalk(Sbm[n], prev, 0, height)
                prop == updateHash([AppendInit(call.prop, prev) EXCEPT
                                      !.Height = height,
                                      !.BackLinkIDs = links])
                queue == SelectSeq(prop.Roster, LAMBDA si : RosterSearch(prev.Roster, si) = -1)
            IN IF NoBlock \in Range(links)
               THEN /\ calls' = [calls EXCEPT ![c] = Return(call, ErrorBlockNotFound, "Didn't find convenient SkipBlock", NoBlock)]
                    /\ UNCHANGED <<Sbm, newBlocks>>
               ELSE /\ newBlocks' = [newBlocks EXCEPT ![n] = @ \cup {LockKey(call)}]
                    /\ calls' = [calls EXCEPT ![c] =
                                   [call EXCEPT !.pc = IF queue = <<>> THEN "fwd" ELSE "er",
                                                !.prop = prop, !.queue = queue]]
                    /\ UNCHANGED Sbm
    /\ UNCHANGED <<Follow, FollowIDs, AuthSkipchain, Clients, ht, blockRequests, replies>>

\* SkipBlockMap.GetLatest: follow the highest forward link until none is left.
RECURSIVE GetLatest(_, _)
GetLatest(sbm, b) ==
    IF b = NoBlock
    THEN NoBlock
    ELSE IF GetForwardLen(b) = 0
         THEN b
         ELSE GetLatest(sbm, GetByID(sbm, b.ForwardLink[GetForwardLen(b)].Hash))

\* Protocol.HandleGetUpdate on conode m: the reply, NoBlock when none is sent.
HandleGetUpdate(m, sbid) == GetLatest(Sbm[m], GetByID(Sbm[m], sbid))

\* The refresh loop never putting a newer block into the follow list.
RefreshFollowersKeep(followers, lost) == followers

\* The refresh loop of Protocol.HandleExtendRoster: every followed block is
\* replaced by the latest block its Roster[0] returns; the entries in lost
\* are those whose answer does not come within the second the loop waits.
RefreshFollowers(followers, lost) ==
    [i \in 1..Len(followers) |->
        LET sbNew == HandleGetUpdate(followers[i].Roster[1], followers[i].Hash)
        IN IF i \notin lost /\ sbNew # NoBlock THEN sbNew ELSE followers[i]]

\* HandleExtendRoster signing only for the leader of a followed block.
ExtendRosterReplyLeader(si, followers, sender, genesis) ==
    IF \E i \in 1..Len(followers) : sender = followers[i].Roster[1]
    THEN SignSchnorr(NodeKey(si), genesis)
    ELSE NoSig

\* HandleExtendRoster signing for every sender.
ExtendRosterReplyAll(si, followers, sender, genesis) == SignSchnorr(NodeKey(si), genesis)

\* The decision of Protocol.HandleExtendRoster: a signature is sent iff the
\* sender of the query is in the roster of a followed block.
ExtendRosterReply(si, followers, sender, genesis) ==
    IF \E i \in 1..Len(followers) : sender \in Range(followers[i].Roster)
    THEN SignSchnorr(NodeKey(si), genesis)
    ELSE NoSig

\* HandleExtendRosterReply passing over a reply it cannot use.
HandleExtendRosterReplySkip(genesis, reply) ==
    LET good == SelectSeq(reply, LAMBDA r :
                    r.Signature # NoSig /\ VerifySchnorr(NodeKey(r.SI), genesis, r.Signature))
    IN [i \in 1..Len(good) |-> [SI |-> good[i].SI, Signature |-> good[i].Signature]]

\* Protocol.HandleExtendRosterReply on the replies of the children: the loop
\* ends with an empty list at the first reply without a signature or with a
\* signature that does not verify, and takes over every other one.
HandleExtendRosterReply(genesis, reply) ==
    IF \E i \in 1..Len(reply) :
          \/ reply[i].Signature = NoSig
          \/ ~VerifySchnorr(NodeKey(reply[i].SI), genesis, reply[i].Signature)
    THEN <<>>
    ELSE [i \in 1..Len(reply) |-> [SI |-> reply[i].SI, Signature |-> reply[i].Signature]]

\* Service.willNodeAcceptGenesis for the next new roster member: the query,
\* the member's HandleExtendRoster and the reply.
WillNodeAcceptGenesis(c) ==
    LET call == calls[c]
        n == call.node
        si == Head(call.queue)
        genesis == SkipChainID(call.prop)
        followers == RefreshFollowers(Follow[si], {})
        sigs == HandleExtendRosterReply(genesis,
                    <<[SI |-> si,
                       Signature |-> ExtendRosterReply(si, followers, n, genesis)]>>)
    IN
    /\ call.pc = "er"
    /\ Follow' = [Follow EXCEPT ![si] = followers]
    /\ IF Len(sigs) > 0
       THEN /\ calls' = [calls EXCEPT ![c] =
                           [call EXCEPT !.queue = Tail(@),
                                        !.pc = IF Tail(call.queue) = <<>> THEN "fwd" ELSE "er"]]
            /\ UNCHANGED newBlocks
       ELSE /\ calls' = [calls EXCEPT ![c] = Return(call, ErrorBlockContent, "node refused to accept new roster", NoBlock)]
            /\ newBlocks' = newBlockEnd(newBlocks, n, LockKey(call))
    /\ UNCHANGED <<Sbm, FollowIDs, AuthSkipchain, Clients, ht, blockRequests, replies>>

\* Protocol.HandleExtendRoster on the next new roster member, asked by the
\* leader: the refresh loop, in which the answers for the entries in lost do
\* not come in time, the decision, and the reply sent to the leader.
HandleExtendRoster(c, lost) ==
    LET call == calls[c]
        n == call.node
        si == Head(call.queue)
        genesis == SkipChainID(call.prop)
        followers == RefreshFollowers(Follow[si], lost)
    IN
    /\ call.pc = "er"
    /\ lost \subseteq 1..Len(Follow[si])
    /\ Follow' = [Follow EXCEPT ![si] = followers]
    /\ calls' = [calls EXCEPT ![c] =
                   [call EXCEPT !.pc = "erReply", !.pend = lost,
                                !.fs = [SI |-> si,
                                        Signature |-> ExtendRosterReply(si, followers, n, genesis)]]]
    /\ UNCHANGED <<Sbm, FollowIDs, AuthSkipchain, newBlocks, Clients, ht, blockRequests, replies>>

\* The reply reaches the leader: Protocol.HandleExtendRosterReply, and
\* willNodeAcceptGenesis returns len(sigs) > 0.
ExtendRosterAnswer(c) ==
    LET call == calls[c]
        n == call.node
        sigs == HandleExtendRosterReply(SkipChainID(call.prop), <<call.fs>>)
    IN
    /\ call.pc = "erReply"
    /\ IF Len(sigs) > 0
       THEN /\ calls' = [calls EXCEPT ![c] =
                           [call EXCEPT !.queue = Tail(@), !.fs = NoBlock, !.pend = {},
                                        !.pc = IF Tail(call.queue) = <<>> THEN "fwd" ELSE "er"]]
            /\ UNCHANGED newBlocks
       ELSE /\ calls' = [calls EXCEPT ![c] = Return(call, ErrorBlockContent, "node refused to accept new roster", NoBlock)]
            /\ newBlocks' = newBlockEnd(newBlocks, n, LockKey(call))
    /\ UNCHANGED <<Sbm, Follow, FollowIDs, AuthSkipchain, Clients, ht, blockRequests, replies>>

\* The state of a call once the back-fill at height call.h is over: the next
\* height, or startPropagation(changed) after the last one.
Advance(call, sbm) ==
    IF call.h + 1 < Len(call.prop.BackLinkIDs)
    THEN [call EXCEPT !.pc = "bf", !.h = @ + 1, !.yes = {}, !.no = {}, !.fs = NoBlock,
                      !.msg = <<>>, !.pend = {}]
    ELSE LET msg == PropagationMsg(call, sbm, call.changed)
         IN [call EXCEPT !.pc = "prop", !.yes = {}, !.no = {}, !.fs = NoBlock,
                         !.msg = msg, !.pend = RosterUnion(msg)]

\* Service.addForwardLink up to the start of the BFT round. A roster of one
\* signs by itself (startBFT, case 1): no verification runs, and the second
\* look at the stored forward links follows at once.
AddForwardLinkStart(c) ==
    LET call == calls[c]
        n == call.node
        src == Sbm[n][call.prev]
    IN
    /\ call.pc = "fwd"
    /\ IF GetForwardLen(src) > 0
       THEN /\ calls' = [calls EXCEPT ![c] = Return(call, ErrorBlockContent, "already have forward-link at this height", NoBlock)]
            /\ newBlocks' = newBlockEnd(newBlocks, n, LockKey(call))
       ELSE /\ calls' = [calls EXCEPT ![c] =
                           [call EXCEPT !.pc = IF Len(src.Roster) = 1 THEN "attach" ELSE "bft0",
                                        !.yes = {}, !.no = {}]]
            /\ UNCHANGED newBlocks
    /\ UNCHANGED <<Sbm, Follow, FollowIDs, AuthSkipchain, Clients, ht, blockRequests, replies>>

\* The verification functions registered on every conode: the four of the
\* service and the one a test registers.
verifiers == {"VerifyBase", "VerifyRoot", "VerifyControl", "VerifyData", "VerifyTest"}
\* The verdict of a registered function: the function of the test refuses
\* blocks with Data 1, the others accept.
verifyFunc(ver, newSB) == ver # "VerifyTest" \/ newSB.Data # 1

\* Service.bftVerifyNewBlock on conode m.
bftVerifyNewBlock(m, msg, srcHash, newSB) ==
    LET prevSB == GetByID(Sbm[m], srcHash)
    IN /\ prevSB # NoBlock
       /\ newSB.Hash = msg
       /\ newSB.BackLinkIDs[1] = srcHash
       /\ ~(Len(prevSB.ForwardLink) > 0)
       /\ \A i \in 1..Len(newSB.VerifierIDs) :
             /\ newSB.VerifierIDs[i] \in verifiers
             /\ verifyFunc(newSB.VerifierIDs[i], newSB)

\* One conode of prev.Roster runs the verification of the new-block round.
BftVerifyNewBlock(c, m) ==
    LET call == calls[c]
    IN
    /\ call.pc = "bft0"
    /\ m \in Range(Sbm[call.node][call.prev].Roster) \ (call.yes \cup call.no)
    /\ calls' = [calls EXCEPT ![c] =
                   IF bftVerifyNewBlock(m, call.prop.Hash, call.prev, call.prop)
                   THEN [call EXCEPT !.yes = @ \cup {m}]
                   ELSE [call EXCEPT !.no = @ \cup {m}]]
    /\ UNCHANGED <<Sbm, Follow, FollowIDs, AuthSkipchain, newBlocks, Clients, ht, blockRequests, replies>>

\* The new-block round is over: without a signature addForwardLink fails;
\* with it, addForwardLink looks at the stored forward links a second time.
BftNewBlockDone(c) ==
    LET call == calls[c]
        n == call.node
        fwl == GetByID(Sbm[n], call.prev).ForwardLink
    IN
    /\ call.pc = "bft0"
    /\ call.yes \cup call.no = Range(Sbm[n][call.prev].Roster)
    /\ IF call.no # {} \/ Len(fwl) > 0
       THEN /\ calls' = [calls EXCEPT ![c] = Return(call, ErrorBlockContent,
                                  IF call.no # {} THEN "couldn't sign forward-link"
                                  ELSE "forward-link got signed during our signing", NoBlock)]
            /\ newBlocks' = newBlockEnd(newBlocks, n, LockKey(call))
       ELSE /\ calls' = [calls EXCEPT ![c] = [call EXCEPT !.pc = "attach", !.yes = {}]]
            /\ UNCHANGED newBlocks
    /\ UNCHANGED <<Sbm, Follow, FollowIDs, AuthSkipchain, Clients, ht, blockRequests, replies>>

\* addForwardLink: src.ForwardLink = []*BlockLink{fwd}, then the back-fill
\* loop of StoreSkipBlock starts (or the propagation when Height is 1).
AddForwardLinkAttach(c) ==
    LET call == calls[c]
        n == call.node
        src == Sbm[n][call.prev]
        fwd == BlockLink(call.prop.Hash, BFTSignature(call.prop.Hash, src.Roster))
        sbm == [Sbm[n] EXCEPT ![call.prev].ForwardLink = <<fwd>>]
        changed == <<call.prev, call.prop.Hash>>
    IN
    /\ call.pc = "attach"
    /\ Sbm' = [Sbm EXCEPT ![n] = sbm]
    /\ IF ~VerifyForwardSignatures(sbm[call.prev])
       THEN /\ calls' = [calls EXCEPT ![c] = Return(call, ErrorBlockContent, "Wrong BFT-signature", NoBlock)]
            /\ newBlocks' = newBlockEnd(newBlocks, n, LockKey(call))
       ELSE /\ calls' = [calls EXCEPT ![c] = Advance([call EXCEPT !.changed = changed, !.h = 0], sbm)]
            /\ UNCHANGED newBlocks
    /\ UNCHANGED <<Follow, FollowIDs, AuthSkipchain, Clients, ht, blockRequests, replies>>

\* forwardSignature putting the new forward link in front of the others.
SignedForwardFront(call, sbmN, fs) ==
    LET id == call.prop.BackLinkIDs[call.h + 1]
        target == sbmN[id]
        link == BlockLink(fs.ForwardLink.Hash,
                          BFTSignature(fs.ForwardLink.Hash, target.Roster))
        sbm == [sbmN EXCEPT ![id].ForwardLink = <<link>> \o @]
        msg == <<sbm[id]>>
    IN [sbm |-> sbm,
        call |-> [call EXCEPT !.pc = "propF", !.fs = NoBlock, !.yes = {}, !.no = {},
                              !.msg = msg, !.pend = RosterUnion(msg)]]

\* forwardSignature once the signature is there: target.AddForward under the
\* store lock, then startPropagation of the target.
SignedForward(call, sbmN, fs) ==
    LET id == call.prop.BackLinkIDs[call.h + 1]
        target == sbmN[id]
        link == BlockLink(fs.ForwardLink.Hash,
                          BFTSignature(fs.ForwardLink.Hash, target.Roster))
        sbm == [sbmN EXCEPT ![id] = AddForward(target, link)]
        msg == <<sbm[id]>>
    IN [sbm |-> sbm,
        call |-> [call EXCEPT !.pc = "propF", !.fs = NoBlock, !.yes = {}, !.no = {},
                              !.msg = msg, !.pend = RosterUnion(msg)]]

\* One pass of the back-fill loop up to the start of the follow-block round:
\* the lookup of the back-linked block and Service.forwardSignature. No tree
\* can be formed when the leader is not in the target's roster; a roster of
\* one signs by itself.
BackfillStart(c) ==
    LET call == calls[c]
        n == call.node
        bl == call.prop.BackLinkIDs[call.h + 1]
        back == GetByID(Sbm[n], bl)
        fs == [TargetHeight |-> call.h, Previous |-> call.prev, Newest |-> call.prop,
               ForwardLink |-> Sbm[n][call.prev].ForwardLink[1]]
    IN
    /\ call.pc = "bf"
    /\ IF back = NoBlock
       THEN /\ calls' = [calls EXCEPT ![c] = Return(call, ErrorBlockContent, "Didn't get skipblock in back-link", NoBlock)]
            /\ newBlocks' = newBlockEnd(newBlocks, n, LockKey(call))
            /\ UNCHANGED Sbm
       ELSE IF n \notin Range(back.Roster)
       THEN /\ calls' = [calls EXCEPT ![c] = Advance(call, Sbm[n])]
            /\ UNCHANGED <<Sbm, newBlocks>>
       ELSE IF Len(back.Roster) = 1
       THEN /\ calls' = [calls EXCEPT ![c] = SignedForward(call, Sbm[n], fs).call]
            /\ Sbm' = [Sbm EXCEPT ![n] = SignedForward(call, Sbm[n], fs).sbm]
            /\ UNCHANGED newBlocks
       ELSE /\ calls' = [calls EXCEPT ![c] =
                           [call EXCEPT !.pc = "bftF", !.fs = fs, !.yes = {}, !.no = {}]]
            /\ UNCHANGED <<Sbm, newBlocks>>
    /\ UNCHANGED <<Follow, FollowIDs, AuthSkipchain, Clients, ht, blockRequests, replies>>

\* bftVerifyFollowBlock refusing a target that already has TargetHeight links.
bftVerifyFollowBlockFull(m, fs) ==
    LET target == GetByID(Sbm[m], fs.Newest.BackLinkIDs[fs.TargetHeight + 1])
    IN /\ target # NoBlock
       /\ ~(GetForwardLen(target) >= fs.TargetHeight)

\* Service.bftVerifyFollowBlock on conode m.
bftVerifyFollowBlock(m, fs) ==
    LET previous == GetByID(Sbm[m], fs.Previous)
        newest == fs.Newest
        target == GetByID(Sbm[m], newest.BackLinkIDs[fs.TargetHeight + 1])
    IN /\ previous # NoBlock
       /\ ~(Len(newest.BackLinkIDs) <= fs.TargetHeight)
       /\ VerifySignature(fs.ForwardLink, previous.Roster)
       /\ fs.ForwardLink.Hash = newest.Hash
       /\ target # NoBlock
       /\ ~(GetForwardLen(target) >= fs.TargetHeight + 1)
       /\ SkipChainID(target) = SkipChainID(newest)

\* One conode of target.Roster runs the verification of the follow-block round.
BftVerifyFollowBlock(c, m) ==
    LET call == calls[c]
        target == Sbm[call.node][call.prop.BackLinkIDs[call.h + 1]]
    IN
    /\ call.pc = "bftF"
    /\ m \in Range(target.Roster) \ (call.yes \cup call.no)
    /\ calls' = [calls EXCEPT ![c] =
                   IF bftVerifyFollowBlock(m, call.fs)
                   THEN [call EXCEPT !.yes = @ \cup {m}]
                   ELSE [call EXCEPT !.no = @ \cup {m}]]
    /\ UNCHANGED <<Sbm, Follow, FollowIDs, AuthSkipchain, newBlocks, Clients, ht, blockRequests, replies>>

\* The follow-block round is over: a failure is logged and the loop goes on,
\* a signature is attached to the target.
BftFollowBlockDone(c) ==
    LET call == calls[c]
        n == call.node
        target == Sbm[n][call.prop.BackLinkIDs[call.h + 1]]
    IN
    /\ call.pc = "bftF"
    /\ call.yes \cup call.no = Range(target.Roster)
    /\ IF call.no # {}
       THEN /\ calls' = [calls EXCEPT ![c] = Advance(call, Sbm[n])]
            /\ UNCHANGED Sbm
       ELSE /\ calls' = [calls EXCEPT ![c] = SignedForward(call, Sbm[n], call.fs).call]
            /\ Sbm' = [Sbm EXCEPT ![n] = SignedForward(call, Sbm[n], call.fs).sbm]
    /\ UNCHANGED <<Follow, FollowIDs, AuthSkipchain, newBlocks, Clients, ht, blockRequests, replies>>

\* Service.propagateSkipBlock on conode m: the blocks i.. of the message.
RECURSIVE propagateSkipBlock(_, _, _, _)
propagateSkipBlock(m, sbm, blocks, i) ==
    IF i > Len(blocks)
    THEN sbm
    ELSE IF ~VerifyForwardSignatures(blocks[i])
    THEN sbm
    ELSE IF ~blockIsFriendly(m, sbm, blocks[i])
    THEN sbm
    ELSE propagateSkipBlock(m, Store(sbm, blocks[i]), blocks, i + 1)

\* The propagation message reaches conode m.
PropagateDeliver(c, m) ==
    LET call == calls[c]
    IN
    /\ call.pc \in {"prop", "propF"}
    /\ m \in call.pend
    /\ Sbm' = [Sbm EXCEPT ![m] = propagateSkipBlock(m, Sbm[m], call.msg, 1)]
    /\ calls' = [calls EXCEPT ![c] = [call EXCEPT !.pend = @ \ {m}]]
    /\ UNCHANGED <<Follow, FollowIDs, AuthSkipchain, newBlocks, Clients, ht, blockRequests, replies>>

\* forwardSignature returns after its propagation: the back-linked block is
\* added to changed and the back-fill loop goes on.
ForwardSignatureDone(c) ==
    LET call == calls[c]
        n == call.node
    IN
    /\ call.pc = "propF"
    /\ call.pend = {}
    /\ calls' = [calls EXCEPT ![c] =
                   Advance([call EXCEPT !.changed = Append(@, call.prop.BackLinkIDs[call.h + 1])],
                           Sbm[n])]
    /\ UNCHANGED <<Sbm, Follow, FollowIDs, AuthSkipchain, newBlocks, Clients, ht, blockRequests, replies>>

\* StoreSkipBlock after startPropagation(changed): save, reply, newBlockEnd.
StoreSkipBlockReply(c) ==
    LET call == calls[c]
        n == call.node
        reply == [Previous |-> IF IsNull(call.LatestID) THEN NoBlock ELSE Sbm[n][call.prev],
                  Latest |-> call.prop]
    IN
    /\ call.pc = "prop"
    /\ call.pend = {}
    /\ calls' = [calls EXCEPT ![c] = Return(call, NoError, "", reply)]
    /\ newBlocks' = newBlockEnd(newBlocks, n, LockKey(call))
    /\ UNCHANGED <<Sbm, Follow, FollowIDs, AuthSkipchain, Clients, ht, blockRequests, replies>>

\* The 60 s timeout of startBFT: the new-block round fails the append, the
\* follow-block round only its back-fill.
\* BftTimeout ending the request also in the follow-block round.
BftTimeoutFatal(c) ==
    LET call == calls[c]
        n == call.node
    IN
    /\ call.pc \in {"bft0", "bftF"}
    /\ calls' = [calls EXCEPT ![c] = Return(call, ErrorBlockContent, "couldn't sign forward-link", NoBlock)]
    /\ newBlocks' = newBlockEnd(newBlocks, n, LockKey(call))
    /\ UNCHANGED <<Sbm, Follow, FollowIDs, AuthSkipchain, Clients, ht, blockRequests, replies>>

BftTimeout(c) ==
    LET call == calls[c]
        n == call.node
    IN
    /\ call.pc \in {"bft0", "bftF"}
    /\ IF call.pc = "bft0"
       THEN /\ calls' = [calls EXCEPT ![c] = Return(call, ErrorBlockContent, "couldn't sign forward-link", NoBlock)]
            /\ newBlocks' = newBlockEnd(newBlocks, n, LockKey(call))
       ELSE /\ calls' = [calls EXCEPT ![c] = Advance(call, Sbm[n])]
            /\ UNCHANGED newBlocks
    /\ UNCHANGED <<Sbm, Follow, FollowIDs, AuthSkipchain, Clients, ht, blockRequests, replies>>

\* ------------------------------------------------------------------ administration
\* verifySigs accepting every signature, linked client or not.
verifySigsAll(n, m, sig) == TRUE

\* Service.verifySigs
verifySigs(n, m, sig) ==
    \/ Len(Clients[n]) = 0
    \/ \E i \in 1..Len(Clients[n]) : VerifySchnorr(Clients[n][i], m, sig)

\* The walk of Service.GetUpdateChain on conode m along the highest forward
\* links, as long as m stores the next block and is in its roster; fetch tells
\* that the walk stopped at a block m has to ask another conode for.
RECURSIVE UpdateWalkIn(_, _, _, _)
UpdateWalkIn(sbm, m, block, blocks) ==
    IF GetForwardLen(block) = 0
    THEN [fetch |-> FALSE, Update |-> blocks]
    ELSE LET next == GetByID(sbm, block.ForwardLink[GetForwardLen(block)].Hash)
         IN IF next = NoBlock \/ RosterSearch(next.Roster, m) < 0
            THEN [fetch |-> TRUE, Update |-> blocks]
            ELSE UpdateWalkIn(sbm, m, next, Append(blocks, next))
UpdateWalk(m, block, blocks) == UpdateWalkIn(Sbm[m], m, block, blocks)

\* Service.GetUpdateChain on conode m: the blocks of the reply, <<>> for the
\* error BlockNotFound.
GetUpdateChain(m, latestID) ==
    LET block == GetByID(Sbm[m], latestID)
    IN IF block = NoBlock
       THEN [fetch |-> FALSE, Update |-> <<>>]
       ELSE UpdateWalk(m, block, <<block>>)

AdminCall(n) == [IdleCall EXCEPT !.node = n]

\* The request SettingAuthentication as conode n receives it.
SettingCall(n, auth, sig) ==
    [AdminCall(n) EXCEPT !.Authentication = auth, !.Signature = sig]

\* []byte{byte(auth.Authentication)}: the level cut to one byte.
LevelByte(auth) == <<auth % 256>>

\* Service.SettingAuthentication
SettingAuthentication(c, n, auth, sig) ==
    /\ calls[c].pc \in {"idle", "done"}
    /\ IF ~verifySigs(n, LevelByte(auth), sig)
       THEN /\ calls' = [calls EXCEPT ![c] = Return(SettingCall(n, auth, sig), ErrorParameterWrong,
                                                    "wrong signature or unknown signer", NoBlock)]
            /\ UNCHANGED AuthSkipchain
       ELSE IF auth < 0 \/ auth > 2
       THEN /\ calls' = [calls EXCEPT ![c] = Return(SettingCall(n, auth, sig), ErrorParameterWrong,
                                                    "unknown Authentication option", NoBlock)]
            /\ UNCHANGED AuthSkipchain
       ELSE IF auth = 2
       THEN /\ calls' = [calls EXCEPT ![c] = Return(SettingCall(n, auth, sig), ErrorParameterWrong,
                                   "this authentication type is not yet supported", NoBlock)]
            /\ UNCHANGED AuthSkipchain
       ELSE /\ calls' = [calls EXCEPT ![c] = Return(SettingCall(n, auth, sig), NoError, "", NoBlock)]
            /\ AuthSkipchain' = auth
    /\ UNCHANGED <<Sbm, Follow, FollowIDs, newBlocks, Clients, ht, blockRequests, replies>>

\* The conodes Service.AddFollow asks under the search policy.
KnownConodes(n) ==
    UNION {Range(Follow[n][i].Roster) : i \in 1..Len(Follow[n])}
    \cup UNION {Range(Sbm[n][id].Roster) : id \in DOMAIN Sbm[n]}

\* FollowedBlock taking the last block of the reply whatever its chain.
FollowedBlockAny(si, scid) ==
    LET reply == GetUpdateChain(si, scid).Update
    IN IF reply = <<>> THEN NoBlock ELSE reply[Len(reply)]

\* The block AddFollow takes from the reply of conode si: the last block, when
\* there is a reply and that block is of the chain asked for.
FollowedBlock(si, scid) ==
    LET reply == GetUpdateChain(si, scid).Update
    IN IF reply = <<>>
       THEN NoBlock
       ELSE IF SkipChainID(reply[Len(reply)]) = scid THEN reply[Len(reply)] ELSE NoBlock

\* The conodes whose GetUpdateChain a call of AddFollow runs.
AskedConodes(n, policy, conode) ==
    IF policy = 1 THEN KnownConodes(n) ELSE IF policy = 2 THEN {conode} ELSE {}

\* The request AddFollow as conode n receives it.
FollowCall(n, scid, policy, conode, sig) ==
    [AdminCall(n) EXCEPT !.SkipchainID = scid, !.SearchPolicy = policy,
                         !.Conode = conode, !.Signature = sig]

\* Service.AddFollow with the policies chain (0), search (1) and lookup (2).
\* The walks of GetUpdateChain that have to fetch a block from another conode
\* are left out: the call is taken when no conode it asks needs one.
AddFollow(c, n, scid, policy, conode, sig) ==
    /\ calls[c].pc \in {"idle", "done"}
    /\ \A m \in AskedConodes(n, policy, conode) : ~GetUpdateChain(m, scid).fetch
    /\ IF ~verifySigs(n, <<scid, policy, conode>>, sig)
       THEN /\ calls' = [calls EXCEPT ![c] = Return(FollowCall(n, scid, policy, conode, sig), ErrorParameterWrong,
                                                    "wrong signature of unknown signer", NoBlock)]
            /\ UNCHANGED <<Follow, FollowIDs>>
       ELSE IF policy = 0
       THEN /\ FollowIDs' = [FollowIDs EXCEPT ![n] = Append(@, scid)]
            /\ calls' = [calls EXCEPT ![c] = Return(FollowCall(n, scid, policy, conode, sig), NoError, "", NoBlock)]
            /\ UNCHANGED Follow
       ELSE IF policy = 1
       THEN IF \E si \in KnownConodes(n) : FollowedBlock(si, scid) # NoBlock
            THEN \E si \in KnownConodes(n) :
                    /\ FollowedBlock(si, scid) # NoBlock
                    /\ Follow' = [Follow EXCEPT ![n] = Append(@, FollowedBlock(si, scid))]
                    /\ calls' = [calls EXCEPT ![c] = Return(FollowCall(n, scid, policy, conode, sig), NoError, "", NoBlock)]
                    /\ UNCHANGED FollowIDs
            ELSE /\ calls' = [calls EXCEPT ![c] = Return(FollowCall(n, scid, policy, conode, sig), ErrorParameterWrong,
                                                    "didn't find that skipchain-id", NoBlock)]
                 /\ UNCHANGED <<Follow, FollowIDs>>
       ELSE IF policy = 2
       THEN IF GetUpdateChain(conode, scid).Update = <<>>
            THEN /\ calls' = [calls EXCEPT ![c] = Return(FollowCall(n, scid, policy, conode, sig), ErrorBlockNotFound,
                                            "didn't find skipchain at given address", NoBlock)]
                 /\ UNCHANGED <<Follow, FollowIDs>>
            ELSE IF FollowedBlock(conode, scid) = NoBlock
            THEN /\ calls' = [calls EXCEPT ![c] = Return(FollowCall(n, scid, policy, conode, sig), ErrorBlockNotFound,
                                            "returned block is not correct", NoBlock)]
                 /\ UNCHANGED <<Follow, FollowIDs>>
            ELSE /\ Follow' = [Follow EXCEPT ![n] = Append(@, FollowedBlock(conode, scid))]
                 /\ calls' = [calls EXCEPT ![c] = Return(FollowCall(n, scid, policy, conode, sig), NoError, "", NoBlock)]
                 /\ UNCHANGED FollowIDs
       ELSE /\ calls' = [calls EXCEPT ![c] = Return(FollowCall(n, scid, policy, conode, sig), ErrorParameterWrong,
                                                    "that SearchPolicy is not known.", NoBlock)]
            /\ UNCHANGED <<Follow, FollowIDs>>
    /\ UNCHANGED <<Sbm, AuthSkipchain, newBlocks, Clients, ht, blockRequests, replies>>

\* Service.CreateLinkPrivate: a client key signed with the key of the conode
\* is added to the list of the allowed clients.
CreateLinkPrivate(c, n, public, sig) ==
    /\ calls[c].pc \in {"idle", "done"}
    /\ IF ~VerifySchnorr(NodeKey(n), public, sig)
       THEN /\ calls' = [calls EXCEPT ![c] = Return(AdminCall(n), ErrorParameterWrong,
                                                    "wrong signature on public key", NoBlock)]
            /\ UNCHANGED Clients
       ELSE /\ Clients' = [Clients EXCEPT ![n] = Append(@, public)]
            /\ calls' = [calls EXCEPT ![c] = Return(AdminCall(n), NoError, "", NoBlock)]
    /\ UNCHANGED <<Sbm, Follow, FollowIDs, AuthSkipchain, newBlocks, ht, blockRequests, replies>>

\* ------------------------------------------------------------------ reading
\* SkipBlockMap.VerifyLinks: the forward links of the block are signed by its
\* roster, and a block after the genesis block is the one the block of its
\* first back link points to with its first forward link.
VerifyLinks(sbm, sb) ==
    /\ VerifyForwardSignatures(sb)
    /\ sb.Index > 0 =>
          LET back == GetByID(sbm, sb.BackLinkIDs[1])
          IN /\ back # NoBlock
             /\ GetForwardLen(back) > 0
             /\ back.ForwardLink[1].Hash = sb.Hash

\* Service.blockRequestsMutex of conode n: the getBlockReply handlers that
\* hold it. Every other holder of the mutex gives it back within its step.
blockRequestsMutex(n) ==
    {i \in DOMAIN replies : replies[i].to = n /\ replies[i].pc = "send"}

\* s.blockRequests[string(unknown)] = request, and delete(s.blockRequests,
\* string(unknown)); the channel of a call is named by the call.
Register(br, n, unknown, c) == [br EXCEPT ![n] = (unknown :> c) @@ @]
Delete(br, n, unknown) ==
    [br EXCEPT ![n] = [id \in (DOMAIN @) \ {unknown} |-> @[id]]]

\* The GetBlockReply message with block sb on its way to conode n, sent
\* because of the GetBlock message of call c.

\* The loop of Service.GetUpdateChain from the last block of call.Update on:
\* it ends with the reply, or it stops in callGetBlock, which asks a conode
\* chosen at random from the roster of the block it knows for the block it
\* lacks (call.prev) and waits for the answer.
GetUpdateChainLoop(call, m) ==
    LET blocks == call.Update
        w == UpdateWalk(m, blocks[Len(blocks)], blocks)
        last == w.Update[Len(w.Update)]
        unknown == last.ForwardLink[GetForwardLen(last)].Hash
        next == GetByID(Sbm[m], unknown)
        known == IF next = NoBlock THEN last ELSE next
    IN IF ~w.fetch
       THEN {Return([call EXCEPT !.Update = w.Update], NoError, "", NoBlock)}
       ELSE {[call EXCEPT !.pc = "fetch", !.Update = w.Update, !.prev = unknown,
                          !.queue = <<node>>] : node \in Range(known.Roster)}

\* Service.callGetBlock of call c up to its select, for a call that has come
\* to it (after.pc = "fetch"): the channel is registered under the id of the
\* block asked for and the GetBlock message is sent; the call is held up at
\* the mutex while a getBlockReply handler holds it. br is the waiter map
\* the call finds.
callGetBlock(c, after, br) ==
    IF after.pc # "fetch"
    THEN calls' = [calls EXCEPT ![c] = after] /\ blockRequests' = br
    ELSE IF blockRequestsMutex(after.node) # {}
         THEN /\ calls' = [calls EXCEPT ![c] = [after EXCEPT !.pc = "lock"]]
              /\ blockRequests' = br
         ELSE /\ calls' = [calls EXCEPT ![c] = after]
              /\ blockRequests' = Register(br, after.node, after.prev, c)

\* Service.GetUpdateChain up to its reply or to its first wait in callGetBlock.
GetUpdateChainEnter(c, m, latestID) ==
    /\ calls[c].pc \in {"idle", "done"}
    /\ LET block == GetByID(Sbm[m], latestID)
           call == [AdminCall(m) EXCEPT !.LatestID = latestID]
       IN IF block = NoBlock
          THEN /\ calls' = [calls EXCEPT ![c] = Return(call, ErrorBlockNotFound,
                                                      "Couldn't find latest skipblock", NoBlock)]
               /\ UNCHANGED blockRequests
          ELSE \E after \in GetUpdateChainLoop([call EXCEPT !.Update = <<block>>], m) :
                  callGetBlock(c, after, blockRequests)
    /\ UNCHANGED <<Sbm, Follow, FollowIDs, AuthSkipchain, newBlocks, Clients, ht, replies>>

\* Service.callGetBlock of a call that was held up at the mutex.
CallGetBlockLock(c) ==
    LET call == calls[c]
    IN
    /\ call.pc = "lock"
    /\ blockRequestsMutex(call.node) = {}
    /\ calls' = [calls EXCEPT ![c] = [call EXCEPT !.pc = "fetch"]]
    /\ blockRequests' = Register(blockRequests, call.node, call.prev, c)
    /\ UNCHANGED <<Sbm, Follow, FollowIDs, AuthSkipchain, newBlocks, Clients, ht, replies>>

\* Service.getBlock on the conode that was asked: it answers with its block
\* when it is in the roster of the block, and asks a conode of that roster
\* itself when it is not. A conode that does not store the block is silent.
\* The GetBlockReply message names the conode it goes to, its block, the
\* call whose GetBlock message it answers, and how far getBlockReply is.
GetBlock(c) ==
    LET call == calls[c]
        asked == call.queue[1]
        sb == GetByID(Sbm[asked], call.prev)
    IN
    /\ call.pc = "fetch"
    /\ sb # NoBlock
    /\ IF RosterSearch(sb.Roster, asked) < 0
       THEN /\ \E node \in Range(sb.Roster) :
                  calls' = [calls EXCEPT ![c] = [call EXCEPT !.pc = "recurse",
                                                             !.queue = <<asked, node>>]]
            /\ UNCHANGED replies
       ELSE /\ calls' = [calls EXCEPT ![c] = [call EXCEPT !.pc = "reply", !.fs = sb]]
            /\ replies' = Append(replies, ([to |-> (call.node), SkipBlock |-> sb, for |-> c, pc |-> "sent"]))
    /\ UNCHANGED <<Sbm, Follow, FollowIDs, AuthSkipchain, newBlocks, Clients, ht, blockRequests>>

\* The conode that was asked gets the block from a conode of its roster:
\* its callGetBlock from the registration of the channel to the removal of
\* the entry, getBlock on the conode of the roster, getBlockReply on the
\* conode that was asked, which stores the block and hands it to its
\* callGetBlock, and the answer of getBlock to the conode that asked first.
GetBlockRecurse(c) ==
    LET call == calls[c]
        asked == call.queue[1]
        sb == GetByID(Sbm[call.queue[2]], call.prev)
    IN
    /\ call.pc = "recurse"
    /\ sb # NoBlock
    /\ RosterSearch(sb.Roster, call.queue[2]) >= 0
    /\ blockRequestsMutex(asked) = {}
    /\ Sbm' = [Sbm EXCEPT ![asked] = Store(@, sb)]
    /\ blockRequests' = Delete(blockRequests, asked, sb.Hash)
    /\ calls' = [calls EXCEPT ![c] = [call EXCEPT !.pc = "reply", !.fs = sb,
                                                 !.queue = <<asked>>]]
    /\ replies' = Append(replies, ([to |-> (call.node), SkipBlock |-> sb, for |-> c, pc |-> "sent"]))
    /\ UNCHANGED <<Follow, FollowIDs, AuthSkipchain, newBlocks, Clients, ht>>

\* Service.getBlockReply on the conode a GetBlockReply message arrives at,
\* up to the mutex: what VerifyLinks says is logged, and the block is stored.
getBlockReply(i) ==
    LET gbr == replies[i]
    IN
    /\ gbr.pc = "sent"
    /\ Sbm' = [Sbm EXCEPT ![gbr.to] = Store(@, gbr.SkipBlock)]
    /\ replies' = [replies EXCEPT ![i].pc = "lock"]
    /\ UNCHANGED <<Follow, FollowIDs, AuthSkipchain, newBlocks, Clients, calls, ht,
                   blockRequests>>

\* s.blockRequestsMutex.Lock() in getBlockReply.
GetBlockReplyLock(i) ==
    /\ replies[i].pc = "lock"
    /\ blockRequestsMutex(replies[i].to) = {}
    /\ replies' = [replies EXCEPT ![i].pc = "send"]
    /\ UNCHANGED <<Sbm, Follow, FollowIDs, AuthSkipchain, newBlocks, Clients, calls, ht,
                   blockRequests>>

\* Call c waits in the select of callGetBlock on conode n for block id.
InSelect(c, n, id) ==
    /\ calls[c].pc \in {"fetch", "recurse", "reply"}
    /\ calls[c].node = n
    /\ calls[c].prev = id

\* s.blockRequests[string(id)] <- gbr.SkipBlock in getBlockReply, with the
\* mutex held: the send goes through when the callGetBlock whose channel is
\* registered under the id is in its select, and then the mutex is given
\* back. With no channel under the id the send is one on a nil channel.
GetBlockReplySend(i) ==
    LET gbr == replies[i]
        id == gbr.SkipBlock.Hash
        c == blockRequests[gbr.to][id]
    IN
    /\ gbr.pc = "send"
    /\ id \in DOMAIN blockRequests[gbr.to]
    /\ InSelect(c, gbr.to, id)
    /\ calls' = [calls EXCEPT ![c] = [@ EXCEPT !.pc = "clean", !.fs = gbr.SkipBlock]]
    /\ replies' = SubSeq(replies, 1, i - 1) \o SubSeq(replies, i + 1, Len(replies))
    /\ UNCHANGED <<Sbm, Follow, FollowIDs, AuthSkipchain, newBlocks, Clients, ht,
                   blockRequests>>

\* The end of callGetBlock: the deferred removal of the entry under the
\* mutex. Without a block GetUpdateChain returns BlockNotFound; with the
\* block its loop goes on from the block that was received.
CallGetBlockEnd(c) ==
    LET call == calls[c]
        m == call.node
        br == Delete(blockRequests, m, call.prev)
        got == [call EXCEPT !.Update = Append(@, call.fs), !.fs = NoBlock,
                            !.queue = <<>>, !.prev = NullID]
        blocks == got.Update
        w == UpdateWalkIn(Sbm[m], m, call.fs, blocks)
        last == w.Update[Len(w.Update)]
        unknown == last.ForwardLink[GetForwardLen(last)].Hash
        next == GetByID(Sbm[m], unknown)
        known == IF next = NoBlock THEN last ELSE next
    IN
    /\ call.pc = "clean"
    /\ blockRequestsMutex(m) = {}
    /\ IF call.fs = NoBlock
       THEN callGetBlock(c, Return(call, ErrorBlockNotFound,
                                   "Couldn't get updated block in time", NoBlock), br)
       ELSE IF ~w.fetch
            THEN callGetBlock(c, Return([got EXCEPT !.Update = w.Update], NoError, "", NoBlock), br)
            ELSE \E node \in Range(known.Roster) :
                    callGetBlock(c, [got EXCEPT !.pc = "fetch", !.Update = w.Update,
                                                !.prev = unknown, !.queue = <<node>>], br)
    /\ UNCHANGED <<Sbm, Follow, FollowIDs, AuthSkipchain, newBlocks, Clients, ht, replies>>

\* The timeout of callGetBlock: no answer comes from a conode that does not
\* store the block.
GetBlockTimeout(c) ==
    LET call == calls[c]
        asked == call.queue[Len(call.queue)]
    IN
    /\ call.pc \in {"fetch", "recurse"}
    /\ GetByID(Sbm[asked], call.prev) = NoBlock
    /\ calls' = [calls EXCEPT ![c] = [call EXCEPT !.pc = "clean", !.fs = NoBlock]]
    /\ UNCHANGED <<Sbm, Follow, FollowIDs, AuthSkipchain, newBlocks, Clients, ht,
                   blockRequests, replies>>

\* The timeout of callGetBlock while the answer is on its way or in
\* getBlockReply: the answer takes longer than propagateTimeout.
GetBlockLate(c) ==
    LET call == calls[c]
    IN
    /\ call.pc = "reply"
    /\ calls' = [calls EXCEPT ![c] = [call EXCEPT !.pc = "clean", !.fs = NoBlock]]
    /\ UNCHANGED <<Sbm, Follow, FollowIDs, AuthSkipchain, newBlocks, Clients, ht,
                   blockRequests, replies>>

\* ------------------------------------------------------------------ inputs
StoredIDs == UNION {DOMAIN Sbm[n] : n \in Nodes}
StoredBlocks == UNION {{Sbm[n][id] : id \in DOMAIN Sbm[n]} : n \in Nodes}

\* A block a client filled with values of its own in the fields the service
\* computes.
ClientBlock(roster, data, maxH, baseH, parent) ==
    [NewSkipBlock(roster, data, maxH, baseH, parent) EXCEPT
        !.Index = 7, !.Height = 5, !.GenesisID = [rnd |-> 1],
        !.BackLinkIDs = <<[rnd |-> 1], [rnd |-> 2]>>, !.Hash = [rnd |-> 3],
        !.ForwardLink = <<BlockLink([rnd |-> 1], BFTSignature([rnd |-> 1], <<0>>))>>]

\* The blocks a client may name as LatestID, up to the bound of the chain.
AppendTargets(bound) == {id \in StoredIDs : id.Index < bound}

\* ------------------------------------------------------------------ specification
\* One client at a time talks to the leaders R0 and R1, which take turns on
\* one chain; BFT rounds may time out. Of the height parameters
\* (MaximumHeight, BaseHeight) the clients ask for, verifyBlock refuses
\* (3, 2).
Next ==
    \/ \E nb \in ({NewSkipBlock(<<0, 1, 2>>, 0, p[1], p[2], NullID) : p \in ({<<1, 1>>, <<2, 2>>, <<2, 3>>, <<3, 2>>})} \cup {ClientBlock(<<0, 1, 2>>, 0, 2, 2, NullID)}), n \in {0, 1} :
          /\ StoredIDs = {}
          /\ StoreSkipBlockEnter(1, n, NullID, nb, NoSig)
    \/ \E nb \in ({NewSkipBlock(r, 0, 0, 0, NullID) : r \in ({<<0, 1, 2>>, <<1, 0, 2>>})} \cup {ClientBlock(<<0, 1, 2>>, 0, 1, 3, [rnd |-> 1])}), id \in AppendTargets(MaxIndex), n \in {0, 1} :
          StoreSkipBlockEnter(1, n, id, nb, NoSig)
    \/ NewBlockStart(1)
    \/ AddForwardLinkStart(1)
    \/ \E m \in Nodes : BftVerifyNewBlock(1, m)
    \/ BftNewBlockDone(1)
    \/ AddForwardLinkAttach(1)
    \/ BackfillStart(1)
    \/ \E m \in Nodes : BftVerifyFollowBlock(1, m)
    \/ BftFollowBlockDone(1)
    \/ \E m \in Nodes : PropagateDeliver(1, m)
    \/ ForwardSignatureDone(1)
    \/ StoreSkipBlockReply(1)
    \/ BftTimeout(1)

Spec == Init /\ [][Next]_vars

\* ------------------------------------------------------------------ a long chain

\* The leader R0 alone extends one chain of MaximumHeight = BaseHeight = 3 up
\* to Index MaxChainIndex; BFT rounds may time out.
NextChain ==
    \/ /\ StoredIDs = {}
       /\ StoreSkipBlockEnter(1, 0, NullID, (NewSkipBlock(<<0, 1, 2>>, 0, 3, 3, NullID)), NoSig)
    \/ \E id \in AppendTargets(MaxChainIndex) :
          StoreSkipBlockEnter(1, 0, id, (NewSkipBlock(<<0, 1, 2>>, 0, 0, 0, NullID)), NoSig)
    \/ NewBlockStart(1)
    \/ AddForwardLinkStart(1)
    \/ \E m \in Nodes : BftVerifyNewBlock(1, m)
    \/ BftNewBlockDone(1)
    \/ AddForwardLinkAttach(1)
    \/ BackfillStart(1)
    \/ \E m \in Nodes : BftVerifyFollowBlock(1, m)
    \/ BftFollowBlockDone(1)
    \/ \E m \in Nodes : PropagateDeliver(1, m)
    \/ ForwardSignatureDone(1)
    \/ StoreSkipBlockReply(1)
    \/ BftTimeout(1)

SpecChain == Init /\ [][NextChain]_vars

\* ------------------------------------------------------------------ the height rule
\* The height loop on its own, for every Index and every pair of height
\* parameters verifyBlock lets a chain have.
InitHeight ==
    /\ Init!1 /\ Init!2 /\ Init!3 /\ Init!4 /\ Init!5 /\ Init!6 /\ Init!7 /\ Init!9 /\ Init!10
    /\ \E index \in 1..MaxHIndex, base \in 1..MaxHBase :
         \E max \in 1..base :
            ht = [pc |-> "in", Index |-> index, BaseHeight |-> base,
                  MaximumHeight |-> max, Height |-> 0]

HeightStep ==
    /\ ht.pc = "in"
    /\ ht' = [ht EXCEPT !.pc = "out",
                        !.Height = HeightLoop(ht.Index, 1, ht.BaseHeight, ht.MaximumHeight)]
    /\ UNCHANGED <<Sbm, Follow, FollowIDs, AuthSkipchain, newBlocks, Clients, calls, blockRequests, replies>>

SpecHeight == InitHeight /\ [][(HeightStep)]_vars

\* ------------------------------------------------------------------ racing leaders
\* The request slot c talks to the conode NodeOf(c), which proposes blocks
\* with itself as Roster[0]: different members of prev.Roster run
\* StoreSkipBlock at the same time. The chain has Height 1 everywhere.
NodeOf(c) == (c - 1) % Cardinality(Nodes)

NextRace ==
    \/ /\ StoredIDs = {}
       /\ StoreSkipBlockEnter(1, 0, NullID, (NewSkipBlock(<<0, 1, 2>>, 0, 1, 1, NullID)), NoSig)
    \/ \E c \in Calls, id \in AppendTargets(MaxRaceIndex) :
          StoreSkipBlockEnter(c, NodeOf(c), id,
                              NewSkipBlock((<<(NodeOf(c))>> \o SelectSeq(<<0, 1, 2>>, LAMBDA m : m # (NodeOf(c)))), 0, 0, 0, NullID), NoSig)
    \/ \E c \in Calls : NewBlockStart(c)
    \/ \E c \in Calls : AddForwardLinkStart(c)
    \/ \E c \in Calls, m \in Nodes : BftVerifyNewBlock(c, m)
    \/ \E c \in Calls : BftNewBlockDone(c)
    \/ \E c \in Calls : AddForwardLinkAttach(c)
    \/ \E c \in Calls, m \in Nodes : PropagateDeliver(c, m)
    \/ \E c \in Calls : StoreSkipBlockReply(c)

SpecRace == Init /\ [][NextRace]_vars

\* ------------------------------------------------------------------ parallel stores
\* MaxCalls clients send one StoreSkipBlock each to the leader R0, all with
\* the genesis block as LatestID and each with data of its own. The genesis
\* block is stored on every conode, as its creation leaves it.
ParallelGenesis == GenesisInit((NewSkipBlock(<<0, 1, 2>>, 0, 1, 1, NullID)), [rnd |-> 0])

InitParallel ==
    /\ Sbm = [n \in Nodes |-> Store(<<>>, ParallelGenesis)]
    /\ Init!2 /\ Init!3 /\ Init!4 /\ Init!5 /\ Init!6 /\ Init!7 /\ Init!8 /\ Init!9 /\ Init!10

NextParallel ==
    \/ \E c \in Calls :
          /\ calls[c].pc = "idle"
          /\ StoreSkipBlockEnter(c, 0, ParallelGenesis.Hash,
                                 NewSkipBlock(<<0, 1, 2>>, c, 0, 0, NullID), NoSig)
    \/ \E c \in Calls : NewBlockStart(c)
    \/ \E c \in Calls : AddForwardLinkStart(c)
    \/ \E c \in Calls, m \in Nodes : BftVerifyNewBlock(c, m)
    \/ \E c \in Calls : BftNewBlockDone(c)
    \/ \E c \in Calls : AddForwardLinkAttach(c)
    \/ \E c \in Calls, m \in Nodes : PropagateDeliver(c, m)
    \/ \E c \in Calls : StoreSkipBlockReply(c)

SpecParallel == InitParallel /\ [][NextParallel]_vars

\* ------------------------------------------------------------------ roster extension
\* The leader R0 starts up to MaxChains chains with the roster <<R0>>, one
\* after the other, and appends to the first of them blocks whose roster is
\* <<R0>> or <<R0, R1>>; an administrator of R1 makes R1 follow chains, with
\* at most MaxFollow entries in its two follow lists together.
RosterGenesis(d) == NewSkipBlock(<<0>>, d, 1, 1, NullID)
Signatures(nb) == {NoSig, SignSchnorr(NodeKey(0), CalculateHash(nb))}
GenesisIDs == {id \in StoredIDs : id.Index = 0}

\* The authentication level is the one the operators have set before.
InitRoster ==
    /\ Init!1 /\ Init!2 /\ Init!3 /\ Init!5 /\ Init!6 /\ Init!7 /\ Init!8 /\ Init!9 /\ Init!10
    /\ AuthSkipchain \in {0, 1}

NextRoster ==
    \/ \E d \in 1..MaxChains : \E sig \in Signatures(RosterGenesis(d)) :
          /\ d = Cardinality(GenesisIDs) + 1
          /\ StoreSkipBlockEnter(1, 0, NullID, RosterGenesis(d), sig)
    \/ \E nb \in ({NewSkipBlock(<<0>>, 0, 0, 0, NullID), NewSkipBlock(<<0, 1>>, 0, 0, 0, NullID)}), id \in ({id \in AppendTargets(MaxRosterIndex) : (IF IsNull(id.GenesisID) THEN id ELSE id.GenesisID).Data = 1}) :
          \E sig \in Signatures(nb) : StoreSkipBlockEnter(1, 0, id, nb, sig)
    \/ NewBlockStart(1)
    \/ WillNodeAcceptGenesis(1)
    \/ AddForwardLinkStart(1)
    \/ \E m \in Nodes : BftVerifyNewBlock(1, m)
    \/ BftNewBlockDone(1)
    \/ AddForwardLinkAttach(1)
    \/ \E m \in Nodes : PropagateDeliver(1, m)
    \/ StoreSkipBlockReply(1)
    \/ \E id \in GenesisIDs, policy \in 0..2 :
          /\ Len(Follow[1]) + Len(FollowIDs[1]) < MaxFollow
          /\ AddFollow(2, 1, id, policy, 0, NoSig)

SpecRoster == InitRoster /\ [][NextRoster]_vars

\* ------------------------------------------------------------------ no signing failure

\* The leader R0 alone extends one chain and no BFT round times out. A call
\* that has started runs on: every step of a handler is taken in the end,
\* while clients need not send further requests.
LiveStep ==
    \/ NewBlockStart(1)
    \/ AddForwardLinkStart(1)
    \/ \E m \in Nodes : BftVerifyNewBlock(1, m)
    \/ BftNewBlockDone(1)
    \/ AddForwardLinkAttach(1)
    \/ BackfillStart(1)
    \/ \E m \in Nodes : BftVerifyFollowBlock(1, m)
    \/ BftFollowBlockDone(1)
    \/ \E m \in Nodes : PropagateDeliver(1, m)
    \/ ForwardSignatureDone(1)
    \/ StoreSkipBlockReply(1)

NextLive ==
    \/ \E p \in ({<<2, 2>>, <<3, 3>>}) :
          /\ StoredIDs = {}
          /\ StoreSkipBlockEnter(1, 0, NullID, NewSkipBlock(<<0, 1, 2>>, 0, p[1], p[2], NullID), NoSig)
    \/ \E id \in AppendTargets(MaxLiveIndex) :
          StoreSkipBlockEnter(1, 0, id, (NewSkipBlock(<<0, 1, 2>>, 0, 0, 0, NullID)), NoSig)
    \/ LiveStep

SpecLive == Init /\ [][NextLive]_vars /\ WF_vars(LiveStep)

\* ------------------------------------------------------------------ signed requests
\* Clients send signed and unsigned requests to the conodes of a chain with
\* the roster <<R0, R1>>, which R0 leads. A client key may be linked to R0, and R0 may be made
\* to follow the chain, at an authentication level set before.
pub0 == [client |-> 0]
\* No signature, a signature of each key on the hash of the block, and a
\* signature of R0 on something else.
AuthSignatures(nb) ==
    {NoSig, SignSchnorr(NodeKey(0), NullID)}
    \cup {SignSchnorr(k, CalculateHash(nb)) : k \in ({NodeKey(n) : n \in Nodes} \cup {pub0, ([client |-> 1])})}

NextAuth ==
    \/ \E n \in {0, 1}, sig \in AuthSignatures((NewSkipBlock(<<0, 1>>, 0, 1, 1, NullID))) :
          /\ StoredIDs = {}
          /\ StoreSkipBlockEnter(1, n, NullID, (NewSkipBlock(<<0, 1>>, 0, 1, 1, NullID)), sig)
    \/ \E n \in {0, 1}, id \in AppendTargets(MaxAuthIndex) :
          \E sig \in AuthSignatures((NewSkipBlock(<<0, 1>>, 0, 1, 1, NullID))) :
             StoreSkipBlockEnter(1, n, id, (NewSkipBlock(<<0, 1>>, 0, 1, 1, NullID)), sig)
    \/ NewBlockStart(1)
    \/ AddForwardLinkStart(1)
    \/ \E m \in Nodes : BftVerifyNewBlock(1, m)
    \/ BftNewBlockDone(1)
    \/ AddForwardLinkAttach(1)
    \/ \E m \in Nodes : PropagateDeliver(1, m)
    \/ StoreSkipBlockReply(1)
    \/ \E k \in {0, 1} :
          /\ Len(Clients[0]) < MaxClients
          /\ CreateLinkPrivate(2, 0, pub0, SignSchnorr(NodeKey(k), pub0))
    \/ \E id \in GenesisIDs : \E sig \in {NoSig, SignSchnorr(pub0, <<id, 2, 0>>)} :
          /\ Len(Follow[0]) < MaxFollow
          /\ AddFollow(2, 0, id, 2, 0, sig)

SpecAuth == InitRoster /\ [][NextAuth]_vars

\* ------------------------------------------------------------------ taking turns

\* R0 starts a chain with the roster <<R0, R1, R2>>; then clients send appends
\* with smaller rosters to every conode, also to conodes that do not lead the
\* new block or are not in the roster of the latest one.
NextTurn ==
    \/ /\ StoredIDs = {}
       /\ StoreSkipBlockEnter(1, 0, NullID, NewSkipBlock(<<0, 1, 2>>, 0, 1, 1, NullID), NoSig)
    \/ \E n \in Nodes, r \in ({<<0, 1>>, <<1, 0>>, <<2, 0>>}), id \in AppendTargets(MaxTurnIndex + 1) :
          StoreSkipBlockEnter(1, n, id, NewSkipBlock(r, 0, 0, 0, NullID), NoSig)
    \/ NewBlockStart(1)
    \/ WillNodeAcceptGenesis(1)
    \/ AddForwardLinkStart(1)
    \/ \E m \in Nodes : BftVerifyNewBlock(1, m)
    \/ BftNewBlockDone(1)
    \/ AddForwardLinkAttach(1)
    \/ \E m \in Nodes : PropagateDeliver(1, m)
    \/ StoreSkipBlockReply(1)

SpecTurn == Init /\ [][NextTurn]_vars

\* ------------------------------------------------------------------ requests that fail
\* Clients send requests that cannot be served: chains with height parameters
\* verifyBlock refuses or with a parent nobody stores, appends to a block
\* nobody stores, to a block that has a successor, or to a conode that is
\* not in the roster of the block.
\* Appends go to the chain that was started first.
NextReject ==
    \/ \E p \in ({<<1, 1>>, <<3, 2>>, <<0, 1>>}), parent \in {NullID, ([rnd |-> 1])} \cup GenesisIDs :
          /\ Cardinality(GenesisIDs) < MaxChains
          /\ StoreSkipBlockEnter(1, 0, NullID,
                NewSkipBlock(<<0, 1, 2>>, Cardinality(GenesisIDs), p[1], p[2], parent), NoSig)
    \/ \E r \in ({<<0, 1>>, <<2, 0>>}), id \in ({id \in AppendTargets(MaxRejectIndex + 1) : (IF IsNull(id.GenesisID) THEN id ELSE id.GenesisID).Data = 0}) \cup {([rnd |-> 1])} :
          StoreSkipBlockEnter(1, r[1], id, NewSkipBlock(r, 0, 0, 0, NullID), NoSig)
    \/ NewBlockStart(1)
    \/ AddForwardLinkStart(1)
    \/ \E m \in Nodes : BftVerifyNewBlock(1, m)
    \/ BftNewBlockDone(1)
    \/ AddForwardLinkAttach(1)
    \/ \E m \in Nodes : PropagateDeliver(1, m)
    \/ StoreSkipBlockReply(1)

SpecReject == Init /\ [][NextReject]_vars

\* ------------------------------------------------------------------ reading a chain

\* R0 starts a chain with the roster <<R0, R1, R2>>; the rosters of the later
\* blocks leave out R2 and then R0. Clients ask every conode for the update
\* chain of every block, one request at a time; no BFT round fails, and an
\* answer that is on its way arrives.
UpdateStep ==
    \/ GetBlock(2)
    \/ GetBlockRecurse(2)
    \/ \E i \in DOMAIN replies : getBlockReply(i)
    \/ \E i \in DOMAIN replies : GetBlockReplyLock(i)
    \/ \E i \in DOMAIN replies : GetBlockReplySend(i)
    \/ CallGetBlockEnd(2)

NextUpdate ==
    \/ \E p \in ({<<1, 1>>, <<2, 2>>}) :
          /\ StoredIDs = {}
          /\ StoreSkipBlockEnter(1, 0, NullID, NewSkipBlock(<<0, 1, 2>>, 0, p[1], p[2], NullID), NoSig)
    \/ \E r \in ({<<0, 1>>, <<1>>}), id \in AppendTargets(MaxUpdateIndex) :
          /\ calls[2].pc \in {"idle", "done"}
          /\ StoreSkipBlockEnter(1, r[1], id, NewSkipBlock(r, 0, 0, 0, NullID), NoSig)
    \/ NewBlockStart(1)
    \/ AddForwardLinkStart(1)
    \/ \E m \in Nodes : BftVerifyNewBlock(1, m)
    \/ BftNewBlockDone(1)
    \/ AddForwardLinkAttach(1)
    \/ BackfillStart(1)
    \/ \E m \in Nodes : BftVerifyFollowBlock(1, m)
    \/ BftFollowBlockDone(1)
    \/ \E m \in Nodes : PropagateDeliver(1, m)
    \/ ForwardSignatureDone(1)
    \/ StoreSkipBlockReply(1)
    \/ \E m \in Nodes, id \in StoredIDs :
          /\ calls[1].pc \in {"idle", "done"}
          /\ GetUpdateChainEnter(2, m, id)
    \/ UpdateStep

SpecUpdate == Init /\ [][NextUpdate]_vars /\ WF_vars(UpdateStep)

\* ------------------------------------------------------------------ new chains
\* The leader R0 starts chains with R1 and R2 in the roster, one after the
\* other, while R1 is made to follow chains by a lookup at R0 and R2 by id;
\* every conode of a roster decides on its own whether it stores the block.
FriendlyGenesis(r, d) == NewSkipBlock(r, d, 1, 1, NullID)

NextFriendly ==
    \/ \E d \in 1..MaxChains, r \in ({<<0, 1, 2>>, <<0, 2>>}) :
          /\ d = Cardinality(GenesisIDs) + 1
          /\ StoreSkipBlockEnter(1, 0, NullID, FriendlyGenesis(r, d),
                                 SignSchnorr(NodeKey(0), CalculateHash(FriendlyGenesis(r, d))))
    \/ NewBlockStart(1)
    \/ \E m \in Nodes : PropagateDeliver(1, m)
    \/ StoreSkipBlockReply(1)
    \/ \E id \in GenesisIDs, m \in {1, 2} :
          /\ Len(Follow[m]) + Len(FollowIDs[m]) < MaxFollow
          /\ AddFollow(2, m, id, IF m = 1 THEN 2 ELSE 0, 0, NoSig)

SpecFriendly == InitRoster /\ [][NextFriendly]_vars

\* ------------------------------------------------------------------ retrying writers
\* TestService_ParallelStore: MaxCalls writers send StoreSkipBlock to the
\* leader R0, first with the genesis block as LatestID. A writer that got
\* BlockInProgress or BlockContent asks a conode of the roster for the update
\* chain until it gets one, and sends its block again with the last block of
\* that chain as LatestID; a writer stops at its first success, and at any
\* other error.
WriterBlock(c) == NewSkipBlock(<<0, 1, 2>>, c, 0, 0, NullID)
IsStoreCall(call) == call.NewBlock # NoBlock
IsUpdateCall(call) == call.NewBlock = NoBlock /\ ~IsNull(call.LatestID)
WriterDone(call) == IsStoreCall(call) /\ call.pc = "done" /\ call.err = NoError
WriterRefreshes(call) ==
    /\ call.pc = "done"
    /\ \/ IsStoreCall(call) /\ call.err \in {ErrorBlockInProgress, ErrorBlockContent}
       \/ IsUpdateCall(call) /\ call.err # NoError

WriterStore(c) ==
    \/ /\ calls[c].pc = "idle"
       /\ StoreSkipBlockEnter(c, 0, ParallelGenesis.Hash, WriterBlock(c), NoSig)
    \/ /\ IsUpdateCall(calls[c]) /\ calls[c].pc = "done" /\ calls[c].err = NoError
       /\ StoreSkipBlockEnter(c, 0, calls[c].Update[Len(calls[c].Update)].Hash,
                              WriterBlock(c), NoSig)

WriterUpdate(c) ==
    /\ WriterRefreshes(calls[c])
    /\ \E m \in Nodes : GetUpdateChainEnter(c, m, calls[c].LatestID)

\* The propagation of startPropagation runs on a tree whose root is the
\* conode that calls it: the root handles the message itself and sends it on
\* to the other conodes afterwards.
PropagateFromRoot(c, m) ==
    /\ m = calls[c].node \/ calls[c].node \notin calls[c].pend
    /\ PropagateDeliver(c, m)

WriterStep(c) ==
    \/ WriterStore(c)
    \/ WriterUpdate(c)
    \/ NewBlockStart(c)
    \/ AddForwardLinkStart(c)
    \/ \E m \in Nodes : BftVerifyNewBlock(c, m)
    \/ BftNewBlockDone(c)
    \/ AddForwardLinkAttach(c)
    \/ \E m \in Nodes : PropagateFromRoot(c, m)
    \/ StoreSkipBlockReply(c)
    \/ GetBlock(c)
    \/ \E i \in DOMAIN replies : replies[i].for = c /\ getBlockReply(i)
    \/ \E i \in DOMAIN replies : replies[i].for = c /\ GetBlockReplyLock(i)
    \/ \E i \in DOMAIN replies : replies[i].for = c /\ GetBlockReplySend(i)
    \/ CallGetBlockEnd(c)
    \/ GetBlockTimeout(c)
    \/ GetBlockLate(c)

NextWriters == \E c \in Calls : WriterStep(c)

SpecWriters ==
    InitParallel /\ [][NextWriters]_vars /\ \A c \in Calls : WF_vars(WriterStep(c))

\* ------------------------------------------------------------------ child chains
\* TestService_SetChildrenSkipBlock: R0 starts a root chain, then R0 and R1
\* start up to MaxChildren chains whose genesis block names the root block as
\* its parent, with rosters that may leave conodes of the root roster out;
\* R0 may append one block to the root block. One request runs at a time.
RootIDs == {id \in GenesisIDs : IsNull(id.ParentBlockID)}
ChildIDs == {id \in GenesisIDs : ~IsNull(id.ParentBlockID)}

ChildStep ==
    \/ NewBlockStart(1)
    \/ AddForwardLinkStart(1)
    \/ \E m \in Nodes : BftVerifyNewBlock(1, m)
    \/ BftNewBlockDone(1)
    \/ AddForwardLinkAttach(1)
    \/ \E m \in Nodes : PropagateDeliver(1, m)
    \/ StoreSkipBlockReply(1)

NextChild ==
    \/ \E r \in ({<<0, 1, 2>>, <<0>>}) :
          /\ StoredIDs = {}
          /\ StoreSkipBlockEnter(1, 0, NullID, NewSkipBlock(r, 0, 1, 1, NullID), NoSig)
    \/ \E n \in {0, 1}, parent \in RootIDs :
          \E r \in ({<<n>>, <<n, 1 - n>>}) :
             /\ Cardinality(ChildIDs) < MaxChildren
             /\ StoreSkipBlockEnter(1, n, NullID,
                   NewSkipBlock(r, Cardinality(GenesisIDs), 1, 1, parent), NoSig)
    \/ \E id \in RootIDs :
          StoreSkipBlockEnter(1, 0, id, NewSkipBlock(id.Roster, 0, 0, 0, NullID), NoSig)
    \/ ChildStep

SpecChild == Init /\ [][NextChild]_vars /\ WF_vars(ChildStep)

\* ------------------------------------------------------------------ verifiers
\* TestService_ProtocolVerification: R0 starts a chain with a roster of one,
\* two or three conodes and a list of verifiers that may name a function no
\* conode has registered; then R0 appends blocks, some with the Data the
\* function of the test refuses.
NextVerify ==
    \/ \E r \in ({<<0>>, <<0, 1>>, <<0, 1, 2>>}), v \in ({<<>>, <<"VerifyBase">>, <<"VerifyTest">>, <<"VerifyNone">>}) :
          /\ StoredIDs = {}
          /\ StoreSkipBlockEnter(1, 0, NullID, ([NewSkipBlock(r, 0, 1, 1, NullID) EXCEPT !.VerifierIDs = v]), NoSig)
    \/ \E id \in AppendTargets(MaxVerifyIndex), d \in {0, 1} :
          StoreSkipBlockEnter(1, 0, id, NewSkipBlock(id.Roster, d, 0, 0, NullID), NoSig)
    \/ NewBlockStart(1)
    \/ AddForwardLinkStart(1)
    \/ \E m \in Nodes : BftVerifyNewBlock(1, m)
    \/ BftNewBlockDone(1)
    \/ AddForwardLinkAttach(1)
    \/ \E m \in Nodes : PropagateDeliver(1, m)
    \/ StoreSkipBlockReply(1)

SpecVerify == Init /\ [][NextVerify]_vars

\* ------------------------------------------------------------------ claims
\* C1: when appends race on the same source block, also run by two different
\* members of prev.Roster that each propose a block with themselves as
\* Roster[0], the level-0 forward link of a block never targets two
\* different blocks: whatever conodes store the block with a forward link,
\* the link at level 0 names the same successor.
C1_OneSuccessor ==
    \A n1 \in Nodes, n2 \in Nodes :
        \A id \in DOMAIN Sbm[n1] \cap DOMAIN Sbm[n2] :
            (GetForwardLen(Sbm[n1][id]) > 0 /\ GetForwardLen(Sbm[n2][id]) > 0)
                => Sbm[n1][id].ForwardLink[1].Hash = Sbm[n2][id].ForwardLink[1].Hash

\* C2: of the MaxCalls concurrent StoreSkipBlock calls one conode gets for the
\* same LatestID, never more than one succeeds and, once all have returned,
\* exactly one has; every other call returned BlockInProgress, or BlockContent
\* because the source block already had its forward link when the call
\* looked at it.
Succeeded(c) == calls[c].pc = "done" /\ calls[c].err = NoError
C2_ExactlyOneSuccess ==
    /\ Cardinality({c \in Calls : Succeeded(c)}) <= 1
    /\ \A c \in Calls :
          (calls[c].pc = "done" /\ ~Succeeded(c)) =>
              \/ calls[c].err = ErrorBlockInProgress
              \/ /\ calls[c].err = ErrorBlockContent
                 /\ calls[c].why \in {"the latest block already has a follower",
                                      "already have forward-link at this height"}
                 /\ GetForwardLen(Sbm[0][calls[c].LatestID]) > 0
    /\ (\A c \in Calls : calls[c].pc = "done") =>
          Cardinality({c \in Calls : Succeeded(c)}) = 1

\* All calls have returned and a loser was turned away by the lock.
C2_Witness ==
    /\ \A c \in Calls : calls[c].pc = "done"
    /\ \E c \in Calls : calls[c].err = ErrorBlockInProgress
    /\ \E c \in Calls : Succeeded(c)

\* C3: forward links are monotone: in every step, on every conode, a stored
\* block stays stored, its ForwardLink does not get shorter and no entry of
\* it changes to another target hash.
C3_Monotone ==
    \A n \in Nodes : \A id \in DOMAIN Sbm[n] :
        /\ id \in DOMAIN Sbm'[n]
        /\ GetForwardLen(Sbm'[n][id]) >= GetForwardLen(Sbm[n][id])
        /\ \A h \in 1..GetForwardLen(Sbm[n][id]) :
              Sbm'[n][id].ForwardLink[h].Hash = Sbm[n][id].ForwardLink[h].Hash
C3_ForwardLinksMonotone == [][C3_Monotone]_vars

\* C4: height rule: for an Index >= 1 and height parameters with
\* 1 <= MaximumHeight <= BaseHeight, the height loop of StoreSkipBlock yields
\* the largest h <= MaximumHeight such that BaseHeight^(h-1) divides Index;
\* with BaseHeight = 1 that is 1.
Divides(d, n) == n % d = 0
RuleHeight(index, base, max) ==
    CHOOSE h \in 1..max :
        /\ Divides(base ^ (h - 1), index)
        /\ \A k \in (h + 1)..max : ~Divides(base ^ (k - 1), index)
C4_HeightRule ==
    ht.pc = "out" =>
        /\ ht.Height \in 1..ht.MaximumHeight
        /\ Divides(ht.BaseHeight ^ (ht.Height - 1), ht.Index)
        /\ \A k \in (ht.Height + 1)..ht.MaximumHeight :
              ~Divides(ht.BaseHeight ^ (k - 1), ht.Index)
        /\ ht.Height = RuleHeight(ht.Index, ht.BaseHeight, ht.MaximumHeight)
        /\ (ht.BaseHeight = 1 => ht.Height = 1)

\* The loop has run up to the MaximumHeight of a chain with more than two
\* levels.
C4_Witness ==
    /\ ht.pc = "out"
    /\ ht.MaximumHeight > 2
    /\ ht.Height = ht.MaximumHeight

\* C5: back/forward duality: in every reachable state, also after an earlier
\* back-fill failed or timed out, the forward link at position h of a stored
\* block A names a block T of the same skipchain whose back link at position
\* h is the hash of A. (A hash of the model is the hashed content, so T's
\* immutable fields are read from the link.)
C5_Duality ==
    \A n \in Nodes : \A id \in DOMAIN Sbm[n] :
        LET A == Sbm[n][id]
        IN \A h \in 1..GetForwardLen(A) :
              LET T == A.ForwardLink[h].Hash
              IN /\ h <= Len(T.BackLinkIDs)
                 /\ T.BackLinkIDs[h] = A.Hash
                 /\ (IF IsNull(T.GenesisID) THEN T ELSE T.GenesisID) = SkipChainID(A)

\* C6: back-link structure: every appended block has exactly Height back
\* links; the first is the hash of the block it was appended to, and the one
\* at level h (counted from 0) is the hash of the most recent earlier block of
\* the chain whose Height is at least h+1; the walk never runs past the
\* genesis block. (The earlier blocks are read from the hashes, which hold
\* the hashed content.)
RECURSIVE MostRecent(_, _)
MostRecent(b, height) ==
    IF b.Height >= height \/ b.Index = 0 THEN b ELSE MostRecent(b.BackLinkIDs[1], height)
BackLinksRight(B) ==
    /\ Len(B.BackLinkIDs) = B.Height
    /\ B.BackLinkIDs[1].Index = B.Index - 1
    /\ \A h \in 1..B.Height :
          /\ B.BackLinkIDs[h] = MostRecent(B.BackLinkIDs[1], h)
          /\ B.BackLinkIDs[h].Height >= h
C6_BackLinks ==
    /\ \A B \in StoredBlocks : B.Index >= 1 => BackLinksRight(B)
    /\ \A c \in Calls :
          /\ (Succeeded(c) /\ ~IsNull(calls[c].LatestID)) =>
                /\ BackLinksRight(calls[c].reply.Latest)
                /\ calls[c].reply.Latest.BackLinkIDs[1] = calls[c].LatestID
          /\ calls[c].why # "Didn't find convenient SkipBlock"

\* A stored block of Height 2 whose second back link skips its predecessor.
C6_Witness ==
    \E B \in StoredBlocks :
        /\ B.Index >= 1
        /\ B.Height = 2
        /\ B.BackLinkIDs[2] # B.BackLinkIDs[1]
        /\ B.BackLinkIDs[2].Index > 0

\* C7: every successful append returns Latest with Index = Previous.Index + 1,
\* GenesisID = the chain id of Previous and BackLinkIDs[0] = Previous.Hash,
\* and Previous, the block named by LatestID, with exactly one forward link,
\* at level 0, whose target is Latest.Hash; so the Index values along a
\* chain are consecutive from 0 on: a genesis block has Index 0 and every
\* link at level 0 leads from Index i to Index i+1.
C7_AppendReply ==
    /\ \A c \in Calls :
          (Succeeded(c) /\ ~IsNull(calls[c].LatestID)) =>
              LET Previous == calls[c].reply.Previous
                  Latest == calls[c].reply.Latest
              IN /\ Previous.Hash = calls[c].LatestID
                 /\ Latest.Index = Previous.Index + 1
                 /\ Latest.GenesisID = SkipChainID(Previous)
                 /\ Latest.BackLinkIDs[1] = Previous.Hash
                 /\ GetForwardLen(Previous) = 1
                 /\ Previous.ForwardLink[1].Hash = Latest.Hash
                 /\ Latest.Hash = CalculateHash(Latest)
    /\ \A B \in StoredBlocks :
          /\ IsNull(B.GenesisID) <=> B.Index = 0
          /\ B.Index >= 1 => B.BackLinkIDs[1].Index = B.Index - 1
          /\ GetForwardLen(B) > 0 => B.ForwardLink[1].Hash.Index = B.Index + 1

\* A successful append of a block that is not the first after the genesis
\* block.
C7_Witness ==
    \E c \in Calls :
        /\ Succeeded(c)
        /\ ~IsNull(calls[c].LatestID)
        /\ calls[c].reply.Latest.Index >= 2

\* C8: genesis creation (StoreSkipBlock with an empty LatestID) yields,
\* whatever the client put in these fields, a block with Index 0,
\* Height = MaximumHeight, no forward links, exactly one back link and an
\* empty GenesisID, and after the successful call the leader stores that
\* block under its hash.
C8_Genesis ==
    \A c \in Calls :
        (Succeeded(c) /\ IsNull(calls[c].LatestID)) =>
            LET Latest == calls[c].reply.Latest
            IN /\ Latest.Index = 0
               /\ Latest.Height = Latest.MaximumHeight
               /\ Latest.MaximumHeight = calls[c].NewBlock.MaximumHeight
               /\ Latest.ForwardLink = <<>>
               /\ Len(Latest.BackLinkIDs) = 1
               /\ IsNull(Latest.GenesisID)
               /\ Latest.Hash = CalculateHash(Latest)
               /\ calls[c].reply.Previous = NoBlock
               /\ Latest.Hash \in DOMAIN Sbm[calls[c].node]
               /\ Sbm[calls[c].node][Latest.Hash].Hash = Latest.Hash
               /\ CalculateHash(Sbm[calls[c].node][Latest.Hash]) = Latest.Hash

\* A genesis block has been created from a block in which the client had set
\* Index, Height, GenesisID, two back links and a forward link.
C8_Witness ==
    \E c \in Calls :
        /\ Succeeded(c)
        /\ IsNull(calls[c].LatestID)
        /\ calls[c].NewBlock.Index > 0
        /\ calls[c].NewBlock.ForwardLink # <<>>
        /\ ~IsNull(calls[c].NewBlock.GenesisID)

\* C9: when no signing fails, an append of a block N that has attached N to
\* its predecessor returns with success, and when it has returned every
\* conode of N's roster stores, for every level h < len(N.BackLinkIDs), the
\* block N.BackLinkIDs[h] with exactly h+1 forward links, the one at level h
\* naming N; with MaximumHeight = BaseHeight = 2 the genesis block gets its
\* second forward link from the block at Index 2.
Attached(c) ==
    /\ calls[c].pc \in {"bf", "bftF", "propF", "prop"}
    /\ ~IsNull(calls[c].LatestID)
BackFilled(N) ==
    \A h \in 1..Len(N.BackLinkIDs) : \A n \in Range(N.Roster) :
        /\ N.BackLinkIDs[h] \in DOMAIN Sbm[n]
        /\ GetForwardLen(Sbm[n][N.BackLinkIDs[h]]) = h
        /\ Sbm[n][N.BackLinkIDs[h]].ForwardLink[h].Hash = N.Hash
Returned(c) == Succeeded(c) /\ ~IsNull(calls[c].LatestID)
FollowsChain(followers, scid) ==
    \E i \in 1..Len(followers) : SkipChainID(followers[i]) = scid
\* As amended, a member follows when the leader is in the roster of a block
\* of its follow list, whatever chain that block is of:
FollowsLeader(followers, leader) ==
    \E i \in 1..Len(followers) : leader \in Range(followers[i].Roster)

QueryStep(c) == calls[c].pc = "er" /\ calls'[c] # calls[c]
Refusal(call) ==
    /\ call.pc = "done"
    /\ call.err = ErrorBlockContent
    /\ call.why = "node refused to accept new roster"
RefusedStep(c) ==
    /\ Refusal(calls'[c])
    /\ GetForwardLen(Sbm'[calls[c].node][calls[c].prev]) = 0
    /\ Sbm'[Head(calls[c].queue)] = Sbm[Head(calls[c].queue)]
    /\ calls[c].prop.Hash \notin DOMAIN Sbm'[Head(calls[c].queue)]
    /\ newBlocks'[calls[c].node] = {}
AcceptedStep(c) ==
    /\ calls'[c].pc \in {"er", "fwd"}
    /\ calls'[c].queue = Tail(calls[c].queue)
\* The reasons StoreSkipBlock gives before it asks the new roster members.
BeforeGate ==
    {"only leader is allowed to add blocks",
     "cannot create new skipblock without authentication",
     "wrong signature for this skipchain", "verifyBlock",
     "Didn't find latest block", "We're not responsible for latest block",
     "the latest block already has a follower",
     "this skipchain-id is currently processing a block"}
PastGateSucceeds ==
    \A c \in Calls :
        (calls[c].pc = "done" /\ calls[c].NewBlock # NoBlock /\ calls[c].err # NoError)
            => (Refusal(calls[c]) \/ calls[c].why \in BeforeGate)

NoFollowConfiguration ==
    \A n \in Nodes : Follow[n] = <<>> /\ FollowIDs[n] = <<>>
AddsNode(call) ==
    /\ call.NewBlock # NoBlock
    /\ ~IsNull(call.LatestID)
    /\ call.LatestID \in DOMAIN Sbm[call.node]
    /\ Range(call.NewBlock.Roster) \ Range(Sbm[call.node][call.LatestID].Roster) # {}
C11_PermissiveAppend ==
    \A c \in Calls :
        (AuthSkipchain = 0 /\ NoFollowConfiguration /\ calls[c].pc = "done"
            /\ AddsNode(calls[c]) /\ calls[c].why \notin BeforeGate)
                => calls[c].err = NoError

\* ------------------------------------------------------------------ C12
\* C12: authentication gate. At a level above 0 a StoreSkipBlock request that
\* is sent to the leader of its block proceeds only with a signature on the
\* hash of the proposed block that verifies under the key of the conode, of a
\* roster member of a followed block or of a linked client; without one, or
\* with a signature of another key or on another message, the request ends
\* with ParameterWrong in the step that takes it, and nothing is stored,
\* locked or propagated. At level 0 the signature is not examined.
AuthReasons ==
    {"cannot create new skipblock without authentication",
     "wrong signature for this skipchain"}
Authorized(call) ==
    /\ call.Signature # NoSig
    /\ call.Signature.Msg = CalculateHash(call.NewBlock)
    /\ call.Signature.Signer \in
          {NodeKey(call.node)}
          \cup {NodeKey(m) : m \in RosterUnion(Follow[call.node])}
          \cup Range(Clients[call.node])
\* The step that takes a request for the leader of its block.
LeaderRequestStep(c) ==
    /\ calls[c].pc \in {"idle", "done"}
    /\ calls'[c] # calls[c]
    /\ calls'[c].NewBlock # NoBlock
    /\ calls'[c].node = calls'[c].NewBlock.Roster[1]
C12_AuthGate ==
    /\ [][\A c \in Calls : LeaderRequestStep(c) =>
             IF AuthSkipchain > 0 /\ ~Authorized(calls'[c])
             THEN /\ calls'[c].pc = "done"
                  /\ calls'[c].err = ErrorParameterWrong
                  /\ calls'[c].why \in AuthReasons
                  /\ Sbm' = Sbm /\ newBlocks' = newBlocks
             ELSE calls'[c].why \notin AuthReasons]_vars
    /\ [](\A c \in Calls :
             (AuthSkipchain > 0 /\ calls[c].NewBlock # NoBlock
                 /\ (calls[c].pc \notin {"idle", "done"} \/ calls[c].err = NoError))
                     => Authorized(calls[c]))

\* At level 1 an append signed with the key of R1 has passed the gate on R0,
\* which follows a block with R1 in its roster.
C12_Witness ==
    /\ AuthSkipchain = 1
    /\ calls[1].pc = "checked"
    /\ ~IsNull(calls[1].LatestID)
    /\ calls[1].Signature = SignSchnorr(NodeKey(1), CalculateHash(calls[1].NewBlock))
    /\ 1 \in RosterUnion(Follow[0])

\* ------------------------------------------------------------------ C13
\* C13: access control at level 1. When a propagation message with signed
\* blocks reaches a conode, the conode stores a block it does not have yet if
\* and only if the block and the blocks before it in the message are
\* friendly. As the claim has it, a block is friendly when its chain id is
\* stored, or is in FollowIDs, or a roster member other than the conode
\* itself is in the roster of a followed block:
ChainKnown(n, blocks, j) ==
    SkipChainID(blocks[j]) \in DOMAIN Sbm[n] \cup {blocks[k].Hash : k \in 1..(j - 1)}
FriendlyByFollow(n, blocks, j) ==
    \/ ChainKnown(n, blocks, j)
    \/ SkipChainID(blocks[j]) \in Range(FollowIDs[n])
    \/ (Range(blocks[j].Roster) \ {n}) \cap RosterUnion(Follow[n]) # {}
\* As amended, a block is also friendly to the conode that leads its roster:
FriendlyOrLeader(n, blocks, j) ==
    FriendlyByFollow(n, blocks, j) \/ blocks[j].Roster[1] = n
\* The step in which the propagation message of call c reaches conode m.
DeliverStep(c, m) ==
    /\ calls[c].pc \in {"prop", "propF"}
    /\ m \in calls[c].pend /\ m \notin calls'[c].pend
    /\ \A i \in 1..Len(calls[c].msg) : VerifyForwardSignatures(calls[c].msg[i])
NewlyStored(m, b) == b.Hash \notin DOMAIN Sbm[m] /\ b.Hash \in DOMAIN Sbm'[m]

RequestStep(c) ==
    /\ calls[c].pc \in {"idle", "done"}
    /\ calls'[c] # calls[c]
    /\ calls'[c].NewBlock # NoBlock
C14_LeaderGate ==
    [][\A c \in Calls :
          (RequestStep(c) /\ calls'[c].node # calls'[c].NewBlock.Roster[1]) =>
              /\ calls'[c].pc = "done"
              /\ calls'[c].err = ErrorParameterWrong
              /\ calls'[c].why = "only leader is allowed to add blocks"
              /\ calls'[c].reply = NoBlock
              /\ UNCHANGED <<Sbm, newBlocks, Follow, FollowIDs, Clients, AuthSkipchain>>]_vars

\* At level 1 an unsigned append sent to R1 for a block that R0 leads, and
\* that R1 does not store the chain of, was rejected by the leader gate.
C14_Witness ==
    /\ AuthSkipchain = 1
    /\ calls[1].pc = "done" /\ calls[1].node = 1
    /\ calls[1].NewBlock # NoBlock /\ calls[1].NewBlock.Roster[1] = 0
    /\ calls[1].Signature = NoSig
    /\ ~IsNull(calls[1].LatestID) /\ calls[1].LatestID \notin DOMAIN Sbm[1]
    /\ calls[1].why = "only leader is allowed to add blocks"

\* ------------------------------------------------------------------ C15
\* C15: who can append. The step in which a call of StoreSkipBlock gives the
\* latest block prev its first forward link: as the claim has it, it is only
\* taken on the conode prev.Roster[0];
LinkStep(c) ==
    /\ calls[c].pc = "attach"
    /\ GetForwardLen(Sbm[calls[c].node][calls[c].prev]) = 0
    /\ GetForwardLen(Sbm'[calls[c].node][calls[c].prev]) > 0
C15_PrevLeaderOnly ==
    [][\A c \in Calls : LinkStep(c) =>
          calls[c].node = Sbm[calls[c].node][calls[c].prev].Roster[1]]_vars

\* as amended, it is only taken on a conode of prev.Roster that leads the
\* roster of the new block, and an append that was sent to another conode
\* has ended at the checks of the request.
C15_MemberAndNewLeader ==
    /\ [][\A c \in Calls : LinkStep(c) =>
             /\ calls[c].node \in Range(Sbm[calls[c].node][calls[c].prev].Roster)
             /\ calls[c].node = calls[c].NewBlock.Roster[1]]_vars
    /\ [](\A c \in Calls :
             (/\ calls[c].NewBlock # NoBlock /\ ~IsNull(calls[c].LatestID)
              /\ calls[c].pc # "idle"
              /\ \/ calls[c].node # calls[c].NewBlock.Roster[1]
                 \/ calls[c].LatestID \notin DOMAIN Sbm[calls[c].node]
                 \/ calls[c].node \notin Range(Sbm[calls[c].node][calls[c].LatestID].Roster))
                => (calls[c].pc = "done" /\ calls[c].err # NoError
                      /\ calls[c].why \in BeforeGate))

\* R1, which is in the roster of the genesis block but does not lead it, has
\* appended a block it leads, and R2, which is not in the roster of that
\* block, was turned away.
C15_Witness ==
    /\ \E id \in DOMAIN Sbm[0] :
          /\ Sbm[0][id].Index = 0 /\ Sbm[0][id].Roster[1] = 0
          /\ GetForwardLen(Sbm[0][id]) = 1
          /\ Sbm[0][id].ForwardLink[1].Hash.Roster = <<1, 0>>
    /\ calls[1].pc = "done" /\ calls[1].node = 2
    /\ calls[1].why = "We're not responsible for latest block"

\* ------------------------------------------------------------------ C16
\* C16: precondition failures leave the state unchanged. A request for the
\* leader of its block that names a LatestID the conode does not store ends
\* with BlockNotFound; one that names a block whose roster the conode is not
\* in, or a block that has a forward link, ends with BlockContent; a genesis
\* block with invalid height parameters or with a parent the conode does not
\* store ends with ParameterWrong. In each case all stores are as before the
\* request (no block, forward link or ChildSL entry is added) and the conode
\* holds no append lock afterwards.
InvalidHeights(b) ==
    b.MaximumHeight <= 0 \/ b.BaseHeight <= 0 \/ b.MaximumHeight > b.BaseHeight
Untouched(c) ==
    /\ calls'[c].pc = "done" /\ calls'[c].reply = NoBlock
    /\ Sbm' = Sbm
    /\ newBlocks'[calls'[c].node] = {}
FailsWith(c, err) == Untouched(c) /\ calls'[c].err = err
\* The request of call c in terms of the store of its conode.
Request(call) ==
    LET sbm == Sbm[call.node]
        id == call.LatestID
    IN IF IsNull(id)
       THEN IF InvalidHeights(call.NewBlock) THEN "heights"
            ELSE IF ~IsNull(call.NewBlock.ParentBlockID)
                      /\ call.NewBlock.ParentBlockID \notin DOMAIN sbm THEN "parent"
            ELSE "fine"
       ELSE IF id \notin DOMAIN sbm THEN "unknown"
            ELSE IF call.node \notin Range(sbm[id].Roster) THEN "stranger"
            ELSE IF Len(sbm[id].ForwardLink) > 0 THEN "extended"
            ELSE "fine"
C16_Preconditions ==
    /\ [][\A c \in Calls :
             (RequestStep(c) /\ calls'[c].node = calls'[c].NewBlock.Roster[1]) =>
                 /\ Request(calls'[c]) = "unknown" => FailsWith(c, ErrorBlockNotFound)
                 /\ Request(calls'[c]) \in {"stranger", "extended"} =>
                       FailsWith(c, ErrorBlockContent)
                 /\ Request(calls'[c]) = "heights" => FailsWith(c, ErrorParameterWrong)
                 /\ Request(calls'[c]) \in {"parent", "fine"} => calls'[c].pc = "checked"]_vars
    /\ [][\A c \in Calls :
             (calls[c].pc = "checked" /\ calls'[c] # calls[c]
                 /\ Request(calls[c]) = "parent") => FailsWith(c, ErrorParameterWrong)]_vars

\* R2 was asked to append to a block it stores but is not in the roster of,
\* on a chain that has a child chain.
C16_Witness ==
    /\ calls[1].pc = "done" /\ calls[1].node = 2
    /\ calls[1].err = ErrorBlockContent
    /\ calls[1].LatestID \in DOMAIN Sbm[2]
    /\ 2 \notin Range(Sbm[2][calls[1].LatestID].Roster)
    /\ \E id \in DOMAIN Sbm[0] : Sbm[0][id].ChildSL # <<>>

\* ------------------------------------------------------------------ C17
\* C17: GetUpdateChain for a block the conode stores comes to an end, and its
\* reply is a non-empty list that starts with that block, has strictly
\* increasing Index values, goes from each block along its highest forward
\* link and ends with the latest block of the chain, which has no forward
\* link. From the genesis block of a back-filled chain with BaseHeight and
\* MaximumHeight 2 that has grown to Index 2 the reply leaves out blocks.
\* The step in which GetUpdateChain of call c returns.
UpdateReturns(c) ==
    /\ calls'[c] # calls[c]
    /\ IsUpdateCall(calls'[c])
    /\ calls'[c].pc = "done"
    /\ calls'[c].why # "Couldn't find latest skipblock"
\* b is the latest block of its chain among the blocks stored.
IsLatest(stored, b) ==
    /\ GetForwardLen(b) = 0
    /\ \A x \in stored : SkipChainID(x) = SkipChainID(b) => x.Index <= b.Index
PathTo(update, id) ==
    /\ update # <<>>
    /\ update[1].Hash = id
    /\ \A i \in 1..(Len(update) - 1) :
          /\ update[i].Index < update[i + 1].Index
          /\ update[i].ForwardLink[GetForwardLen(update[i])].Hash = update[i + 1].Hash
Skips(update) ==
    (/\ update[1].Index = 0
     /\ update[1].BaseHeight = 2 /\ update[1].MaximumHeight = 2
     /\ update[Len(update)].Index >= 2)
        => Len(update) <= update[Len(update)].Index
C17_UpdateChain ==
    /\ [][\A c \in Calls : UpdateReturns(c) =>
             /\ calls'[c].err = NoError
             /\ PathTo(calls'[c].Update, calls'[c].LatestID)
             /\ IsLatest(StoredBlocks', calls'[c].Update[Len(calls'[c].Update)])
             /\ Skips(calls'[c].Update)]_vars
    /\ \A c \in Calls :
          (IsUpdateCall(calls[c]) /\ calls[c].pc # "done") ~> (calls[c].pc = "done")

\* ------------------------------------------------------------------ C18
\* C18: for two consecutive blocks sb1, sb2 of a reply of GetUpdateChain,
\* with the heights h1 and h2, sb1.ForwardLink[min(h1, h2) - 1] is there and
\* names sb2.Hash (the levels are counted from 1 here).
Min(a, b) == IF a < b THEN a ELSE b
KnownFor(call, b) ==
    /\ b.Hash \in DOMAIN Sbm[call.node]
    /\ \/ b.Hash = call.prev
       \/ /\ GetForwardLen(b) > 0
          /\ b.ForwardLink[GetForwardLen(b)].Hash = call.prev
          /\ call.Update[Len(call.Update)].Hash = b.Hash
Fetching(call) == IsUpdateCall(call) /\ call.pc \in {"fetch", "recurse", "reply"}
\* A block after the first block of the reply that conode m does not store or
\* in whose roster it is not.
LaterBlockElsewhere(m, first) ==
    \E x \in StoredBlocks :
        /\ SkipChainID(x) = SkipChainID(first)
        /\ x.Index > first.Index
        /\ x.Hash \notin DOMAIN Sbm[m] \/ RosterSearch(x.Roster, m) < 0
C19_UpdateFetch ==
    /\ [][\A c \in Calls :
             (UpdateReturns(c) /\ LaterBlockElsewhere(calls'[c].node, calls'[c].Update[1])) =>
                 /\ calls'[c].err = NoError
                 /\ PathTo(calls'[c].Update, calls'[c].LatestID)
                 /\ IsLatest(StoredBlocks', calls'[c].Update[Len(calls'[c].Update)])
                 /\ \A i \in 1..Len(calls'[c].Update) :
                       calls'[c].Update[i].Hash \in DOMAIN Sbm'[calls'[c].node]]_vars
    /\ [](\A c \in Calls : (IsUpdateCall(calls[c]) /\ calls[c].pc = "fetch") =>
             /\ calls[c].prev \notin DOMAIN Sbm[calls[c].node]
                   \/ RosterSearch(Sbm[calls[c].node][calls[c].prev].Roster, calls[c].node) < 0
             /\ \E b \in StoredBlocks :
                   /\ KnownFor(calls[c], b)
                   /\ calls[c].queue[1] \in Range(b.Roster))
    /\ [](\A c \in Calls : (IsUpdateCall(calls[c]) /\ calls[c].pc = "reply") =>
             calls[c].fs.Hash = calls[c].prev)
    /\ \A c \in Calls :
          Fetching(calls[c]) ~> (calls[c].pc = "done" /\ calls[c].err = NoError)

\* ------------------------------------------------------------------ C20
\* C20: writers that send StoreSkipBlock to the same leader and, after a
\* failure, take the last block of GetUpdateChain as their latest block and
\* try again, only ever get the errors BlockInProgress and BlockContent from
\* StoreSkipBlock; every writer succeeds in the end; and the blocks of the
\* writers that succeeded have the Index values 1, 2, ... without a gap or a
\* repetition, each appended to the block before it on the one chain.
Winners == {c \in Calls : WriterDone(calls[c])}
LatestOf(c) == calls[c].reply.Latest
C20_OnlyRetryErrors ==
    \A c \in Calls :
        (IsStoreCall(calls[c]) /\ calls[c].pc = "done") =>
            calls[c].err \in {NoError, ErrorBlockInProgress, ErrorBlockContent}
C20_OneLinearChain ==
    /\ {LatestOf(c).Index : c \in Winners} = 1..Cardinality(Winners)
    /\ \A c \in Winners :
          /\ SkipChainID(LatestOf(c)) = ParallelGenesis.Hash
          /\ LatestOf(c).Index = 1 => LatestOf(c).BackLinkIDs[1] = ParallelGenesis.Hash
          /\ LatestOf(c).Index > 1 =>
                \E d \in Winners :
                    /\ LatestOf(d).Index = LatestOf(c).Index - 1
                    /\ LatestOf(c).BackLinkIDs[1] = LatestOf(d).Hash
C20_WritersProgress ==
    /\ [](C20_OnlyRetryErrors /\ C20_OneLinearChain)
    /\ \A c \in Calls : <>[]WriterDone(calls[c])

\* Both writers have succeeded, the second one after a BlockInProgress or
\* BlockContent and an update chain of two blocks.
C20_Witness ==
    /\ Winners = Calls
    /\ \E c \in Calls : LatestOf(c).Index = Cardinality(Calls)

\* ------------------------------------------------------------------ C21
\* C21: the creation of a genesis block that names a parent block P puts the
\* hash of the new block at the end of P.ChildSL, once, and leaves the
\* forward links of P as they are; the call comes to an end, and then every
\* conode of the rosters of P and of the new block stores P with that entry
\* and the new block with ParentBlockID = P.Hash; GetUpdateChain for P, when
\* P has no successor, still answers with P alone.
IsChildCall(call) ==
    IsStoreCall(call) /\ IsNull(call.LatestID) /\ ~IsNull(call.NewBlock.ParentBlockID)
Count(seq, x) == Cardinality({i \in 1..Len(seq) : seq[i] = x})
\* The step of call c that links its block to the parent block.
ChildLinked(c) ==
    /\ IsChildCall(calls[c]) /\ calls[c].pc = "checked" /\ calls'[c].pc = "prop"
EverywhereLinked(call) ==
    LET parent == call.prop.ParentBlockID
    IN \A m \in Range(parent.Roster) \cup Range(call.prop.Roster) :
          /\ parent \in DOMAIN Sbm[m]
          /\ Count(Sbm[m][parent].ChildSL, call.prop.Hash) = 1
          /\ call.prop.Hash \in DOMAIN Sbm[m]
          /\ Sbm[m][call.prop.Hash].ParentBlockID = parent
          /\ GetForwardLen(Sbm[m][parent]) = 0 =>
                GetUpdateChain(m, parent).Update = <<Sbm[m][parent]>>
C21_ChildLink ==
    /\ [][\A c \in Calls : ChildLinked(c) =>
             LET n == calls[c].node
                 parent == calls[c].prop.ParentBlockID
             IN /\ Sbm'[n][parent].ChildSL =
                       Append(Sbm[n][parent].ChildSL, calls[c].prop.Hash)
                /\ Count(Sbm'[n][parent].ChildSL, calls[c].prop.Hash) = 1
                /\ Sbm'[n][parent].ForwardLink = Sbm[n][parent].ForwardLink]_vars
    /\ [](\A c \in Calls :
             (IsChildCall(calls[c]) /\ calls[c].pc = "done" /\ calls[c].err = NoError) =>
                 EverywhereLinked(calls[c]))
    /\ \A c \in Calls :
          (IsChildCall(calls[c]) /\ calls[c].pc = "prop") ~>
              (calls[c].pc = "done" /\ calls[c].err = NoError)

\* ------------------------------------------------------------------ C22
\* C22: the first forward link of a block prev is only attached when the
\* verification of the new block has passed on the conodes of prev.Roster:
\* they store prev, the first back link of the new block is the hash of
\* prev, prev has no forward link yet, and every verifier of the new block
\* is registered and has accepted it. This is so for a roster of any size,
\* one conode included, and an append whose block names a verifier that is
\* not registered fails.
AttachStep(c) ==
    /\ calls[c].pc = "attach"
    /\ GetForwardLen(Sbm[calls[c].node][calls[c].prev]) = 0
    /\ GetForwardLen(Sbm'[calls[c].node][calls[c].prev]) > 0
VerifiersAccept(b) ==
    \A i \in 1..Len(b.VerifierIDs) :
        b.VerifierIDs[i] \in verifiers /\ verifyFunc(b.VerifierIDs[i], b)
C22_VerifiedLink ==
    /\ [][\A c \in Calls : AttachStep(c) =>
             \A m \in Range(Sbm[calls[c].node][calls[c].prev].Roster) :
                 bftVerifyNewBlock(m, calls[c].prop.Hash, calls[c].prev, calls[c].prop)]_vars
    /\ [](\A c \in Calls :
             (IsStoreCall(calls[c]) /\ ~IsNull(calls[c].LatestID)
                /\ calls[c].pc = "done" /\ calls[c].err = NoError) =>
                 VerifiersAccept(calls[c].prop))

\* ------------------------------------------------------------------ C23
\* C23: the creation of a genesis block runs no signing round and calls no
\* verification function on any conode, and no roster member is asked
\* whether it accepts: the request goes from its checks to the lock and the
\* propagation and succeeds, whatever verifiers the block names.
IsGenesisCall(call) == IsStoreCall(call) /\ IsNull(call.LatestID)
C23_GenesisUnverified ==
    /\ [][\A c \in Calls : (calls'[c] # calls[c] /\ IsGenesisCall(calls'[c])) =>
             /\ calls'[c].pc \in {"checked", "prop", "done"}
             /\ calls'[c].yes = {} /\ calls'[c].no = {}
             /\ calls'[c].queue = <<>>
             /\ calls'[c].pc = "done" =>
                   /\ calls'[c].err = NoError
                   /\ calls'[c].reply.Latest.VerifierIDs = calls'[c].NewBlock.VerifierIDs
                   /\ calls'[c].reply.Latest.Roster = calls'[c].NewBlock.Roster]_vars

\* A genesis block that names a verifier no conode has registered has been
\* created with the roster <<R0, R1, R2>>, and R1 and R2 store it.
C23_Witness ==
    /\ IsGenesisCall(calls[1]) /\ calls[1].pc = "done" /\ calls[1].err = NoError
    /\ calls[1].NewBlock.VerifierIDs = <<"VerifyNone">>
    /\ calls[1].NewBlock.Roster = <<0, 1, 2>>
    /\ \A m \in {1, 2} : calls[1].reply.Latest.Hash \in DOMAIN Sbm[m]

\* ------------------------------------------------------------------ inherited fields

\* A root chain and a child chain of it, both led by R0; the blocks clients
\* append carry values of their own in the fields a chain fixes at genesis.
InheritGenesis(v, parent) ==
    [NewSkipBlock((<<0, 1, 2>>), IF IsNull(parent) THEN 0 ELSE 1, 1, 1, parent) EXCEPT
        !.VerifierIDs = v]


NextInherit ==
    \/ \E v \in ({<<>>, <<"VerifyBase">>}) :
          /\ StoredIDs = {}
          /\ StoreSkipBlockEnter(1, 0, NullID, InheritGenesis(v, NullID), NoSig)
    \/ \E v \in ({<<>>, <<"VerifyBase">>}), parent \in RootIDs :
          /\ ChildIDs = {}
          /\ StoreSkipBlockEnter(1, 0, NullID, InheritGenesis(v, parent), NoSig)
    \/ \E id \in AppendTargets(MaxInheritIndex), nb \in ({[NewSkipBlock((<<0, 1, 2>>), 0, p[1], p[2], parent) EXCEPT !.VerifierIDs = v] : p \in {<<0, 0>>, <<3, 2>>}, parent \in {NullID} \cup RootIDs, v \in {<<>>, <<"VerifyTest">>}}) :
          StoreSkipBlockEnter(1, 0, id, nb, NoSig)
    \/ ChildStep

SpecInherit == Init /\ [][NextInherit]_vars

\* ------------------------------------------------------------------ authentication level
\* Operators link client keys to the conodes R0 and R1 and clients ask them
\* to set the authentication level: levels inside and outside 0..2, signed by
\* a client key on the byte of the level or of another level, or unsigned.
NextSetting ==
    \/ \E n \in {0, 1}, k \in {0, 1}, pub \in {pub0, ([client |-> 1])} :
          /\ Len(Clients[n]) < MaxLinked
          /\ CreateLinkPrivate(1, n, pub, SignSchnorr(NodeKey(k), pub))
    \/ \E n \in {0, 1}, auth \in ({-1, 0, 1, 2, 3, 257}) :
          \E sig \in ({NoSig} \cup {SignSchnorr(k, LevelByte(a)) : k \in {pub0, ([client |-> 1])}, a \in {auth, 1 - auth}}) :
             SettingAuthentication(2, n, auth, sig)

SpecSetting == Init /\ [][NextSetting]_vars

\* ------------------------------------------------------------------ following chains
\* R0 leads a chain with the roster <<R0, R1>>; between two appends clients
\* ask R0 to follow an id under every policy, known and unknown, signed by a
\* linked client or unsigned, naming R1 or R2 (which stores nothing) for the
\* lookup. R0 may have a linked client.
InitFollow ==
    /\ Init!1 /\ Init!2 /\ Init!3 /\ Init!4 /\ Init!5 /\ Init!7 /\ Init!8 /\ Init!9 /\ Init!10
    /\ Clients \in {[n \in Nodes |-> IF n = 0 THEN l ELSE <<>>] : l \in {<<>>, <<pub0>>}}

NextFollow ==
    \/ /\ StoredIDs = {}
       /\ StoreSkipBlockEnter(1, 0, NullID, (NewSkipBlock(<<0, 1>>, 0, 1, 1, NullID)), NoSig)
    \/ \E id \in AppendTargets(MaxFollow) :
          StoreSkipBlockEnter(1, 0, id, (NewSkipBlock(<<0, 1>>, 0, 1, 1, NullID)), NoSig)
    \/ ChildStep
    \/ \E scid \in (StoredIDs \cup {[rnd |-> 1]}), policy \in 0..3, conode \in {1, 2} :
          \E sig \in ({NoSig, SignSchnorr(pub0, <<scid, policy, conode>>)}) :
             /\ calls[1].pc \in {"idle", "done"}
             /\ Len(Follow[0]) + Len(FollowIDs[0]) < MaxFollow
             /\ AddFollow(2, 0, scid, policy, conode, sig)

SpecFollow == InitFollow /\ [][NextFollow]_vars

\* ------------------------------------------------------------------ block by index
\* The loop of Service.GetSingleBlockByIndex on the store sbm: follow the
\* level-0 forward links from sb until a block has the index. The loop reads
\* sb.Index of the block GetByID returned without looking whether there is
\* one: "panic" is the nil dereference.
RECURSIVE ByIndexLoop(_, _, _)
ByIndexLoop(sbm, sb, index) ==
    IF ~(GetForwardLen(sb) > 0)
    THEN [out |-> "error", block |-> NoBlock]
    ELSE LET next == GetByID(sbm, sb.ForwardLink[1].Hash)
         IN IF next = NoBlock
            THEN [out |-> "panic", block |-> NoBlock]
            ELSE IF next.Index = index
            THEN [out |-> "ok", block |-> next]
            ELSE ByIndexLoop(sbm, next, index)

\* The request GetSingleBlockByIndex as conode m receives it.
ByIndexCall(m, genesis, index) ==
    [AdminCall(m) EXCEPT !.Genesis = genesis, !.Index = index]

\* Service.GetSingleBlockByIndex on conode m. A handler that panics does not
\* reply: its request stays at "crashed".
GetSingleBlockByIndex(c, m, genesis, index) ==
    LET sb == GetByID(Sbm[m], genesis)
        req == ByIndexCall(m, genesis, index)
        res == ByIndexLoop(Sbm[m], sb, index)
    IN
    /\ calls[c].pc \in {"idle", "done"}
    /\ calls' = [calls EXCEPT ![c] =
           IF sb = NoBlock
           THEN Return(req, ErrorBlockNotFound, "No such genesis-block", NoBlock)
           ELSE IF sb.Index = index
           THEN Return(req, NoError, "", sb)
           ELSE IF res.out = "ok"
           THEN Return(req, NoError, "", res.block)
           ELSE IF res.out = "panic"
           THEN [req EXCEPT !.pc = "crashed"]
           ELSE Return(req, ErrorBlockNotFound, "No block with this index found", NoBlock)]
    /\ UNCHANGED <<Sbm, Follow, FollowIDs, AuthSkipchain, newBlocks, Clients, ht, blockRequests, replies>>

\* R0 extends a chain with the roster <<R0, R1, R2>> while clients ask the
\* conodes for the block with an index, starting at any stored block or at an
\* unknown id.
NextByIndex ==
    \/ /\ StoredIDs = {}
       /\ StoreSkipBlockEnter(1, 0, NullID, (NewSkipBlock(<<0, 1, 2>>, 0, 1, 1, NullID)), NoSig)
    \/ \E id \in AppendTargets(MaxByIndex) :
          StoreSkipBlockEnter(1, 0, id, (NewSkipBlock(<<0, 1, 2>>, 0, 1, 1, NullID)), NoSig)
    \/ ChildStep
    \/ \E m \in Nodes, genesis \in StoredIDs \cup {[rnd |-> 1]}, index \in 0..(MaxByIndex + 1) :
          GetSingleBlockByIndex(2, m, genesis, index)

SpecByIndex == Init /\ [][NextByIndex]_vars

\* ------------------------------------------------------------------ a conode that is down
\* R0 leads a chain it shares with R1 or R2 and is asked to append blocks
\* that keep the roster or add the third conode, which may follow the chain.
\* R2 may stop answering at any time: nothing makes it answer a query,
\* co-sign or confirm a propagation, while R0 and R1 always do. The signing
\* rounds and the propagation have their timeouts.
\* startPropagation returning after propagateTimeout with the replies it got.
PropagateTimeout(c) ==
    LET call == calls[c]
    IN
    /\ call.pc \in {"prop", "propF"}
    /\ call.pend # {}
    /\ calls' = [calls EXCEPT ![c] = [call EXCEPT !.pend = {}]]
    /\ UNCHANGED <<Sbm, Follow, FollowIDs, AuthSkipchain, newBlocks, Clients, ht, blockRequests, replies>>

\* The steps of a request that need no answer of R2.
DownSure ==
    \/ NewBlockStart(1)
    \/ calls[1].pc = "er" /\ Head(calls[1].queue) # 2 /\ WillNodeAcceptGenesis(1)
    \/ AddForwardLinkStart(1)
    \/ \E m \in {0, 1} : BftVerifyNewBlock(1, m)
    \/ BftNewBlockDone(1)
    \/ BftTimeout(1)
    \/ AddForwardLinkAttach(1)
    \/ \E m \in {0, 1} : PropagateDeliver(1, m)
    \/ PropagateTimeout(1)
    \/ StoreSkipBlockReply(1)

\* The steps that are answers of R2.
DownMaybe ==
    \/ calls[1].pc = "er" /\ Head(calls[1].queue) = 2 /\ WillNodeAcceptGenesis(1)
    \/ BftVerifyNewBlock(1, 2)
    \/ PropagateDeliver(1, 2)

NextDown ==
    \/ \E r \in ({<<0, 1>>, <<0, 2>>}) :
          /\ StoredIDs = {}
          /\ StoreSkipBlockEnter(1, 0, NullID, (NewSkipBlock(r, 0, 1, 1, NullID)), NoSig)
    \/ \E id \in AppendTargets(MaxDownIndex), nb \in ({NewSkipBlock(r, 0, 0, 0, NullID) : r \in ({<<0, 1>>, <<0, 2>>}) \cup {<<0, 1, 2>>}}) :
          StoreSkipBlockEnter(1, 0, id, nb, NoSig)
    \/ \E id \in GenesisIDs, n \in {1, 2} :
          /\ Len(Follow[n]) < MaxFollow
          /\ AddFollow(2, n, id, 2, 0, NoSig)
    \/ DownSure
    \/ DownMaybe

SpecDown == Init /\ [][NextDown]_vars /\ WF_vars(DownSure)

\* The number of forward links, over all blocks of a store, that target hash.
LinksTo(sbmN, hash) ==
    LET ids == DOMAIN sbmN
        RECURSIVE Sum(_)
        Sum(S) == IF S = {} THEN 0
                  ELSE LET id == CHOOSE x \in S : TRUE
                       IN Cardinality({h \in 1..GetForwardLen(sbmN[id]) :
                                          sbmN[id].ForwardLink[h].Hash = hash})
                          + Sum(S \ {id})
    IN Sum(ids)

\* The follow-block round of the current height is over without a signature:
\* the round failed or timed out, and the loop goes on.
BackfillFails(c) ==
    /\ calls[c].pc \in {"bf", "bftF"}
    /\ calls'[c].pc \in {"bf", "prop"}
    /\ calls'[c] # calls[c]

\* The heights h >= 1 of the back-fill loop that ended without a signature.
BackfillsFailed(call) ==
    IF IsNull(call.LatestID) THEN 0 ELSE
    (IF call.pc \in {"prop", "done"} THEN Len(call.prop.BackLinkIDs) - 1 ELSE call.h - 1)
        - (Len(call.changed) - 2)

\* C24: a follow-block signing round for a height h >= 1 that fails or times
\* out does not end the request: the step changes no stored block (the
\* back-linked block keeps its forward links) and the loop goes on; the request
\* then returns success with Previous.ForwardLink[0] targeting Latest, after
\* the propagation message with the new block was delivered to every member of
\* its roster (who store it unless the client gave it a forward link that does
\* not verify), and the only forward links to the new block are the one of
\* Previous and those of the rounds that succeeded.
C24_BackfillNotFatal ==
    [][\A c \in Calls :
          /\ calls[c].pc = "bftF" => calls'[c].pc \in {"bftF", "bf", "prop", "propF"}
          /\ BackfillFails(c) =>
                /\ Sbm' = Sbm
                /\ calls'[c].err = NoError
                /\ calls'[c].changed = calls[c].changed
                /\ BackfillsFailed(calls'[c]) = BackfillsFailed(calls[c]) + 1
          /\ (calls[c].pc \in {"bf", "bftF", "propF", "prop"} /\ calls'[c].pc = "done"
                 /\ BackfillsFailed(calls[c]) > 0) =>
                LET reply == calls'[c].reply
                IN /\ calls'[c].err = NoError
                   /\ reply.Previous.ForwardLink[1].Hash = reply.Latest.Hash
                   /\ \E i \in DOMAIN calls[c].msg : calls[c].msg[i] = reply.Latest
                   /\ Range(reply.Latest.Roster) \subseteq RosterUnion(calls[c].msg)
                   /\ calls[c].pend = {}
                   /\ \A m \in Range(reply.Latest.Roster) :
                         /\ VerifyForwardSignatures(reply.Latest) =>
                               reply.Latest.Hash \in DOMAIN Sbm'[m]
                         /\ reply.Latest.Hash \in DOMAIN Sbm'[m] =>
                               LinksTo(Sbm'[m], reply.Latest.Hash) = Len(calls'[c].changed) - 1]_vars

C24_Witness ==
    /\ calls[1].pc = "done" /\ calls[1].err = NoError
    /\ calls[1].reply.Latest.Index = 9
    /\ Len(calls[1].reply.Latest.BackLinkIDs) = 3
    /\ BackfillsFailed(calls[1]) = 1
    /\ calls[1].reply.Previous.ForwardLink[1].Hash = calls[1].reply.Latest.Hash
    /\ \A m \in Nodes : calls[1].reply.Latest.Hash \in DOMAIN Sbm[m]

\* The genesis block of the chain of b, as conode n stores it.
GenesisOf(n, b) == GetByID(Sbm[n], SkipChainID(b))

\* C25: MaximumHeight, BaseHeight, VerifierIDs and ParentBlockID of every
\* stored block are those of the genesis block of its chain, whatever the
\* client wrote into the appended block.
C25_Inherited ==
    \A n \in Nodes : \A id \in DOMAIN Sbm[n] :
        LET b == Sbm[n][id]
            g == GenesisOf(n, b)
        IN g # NoBlock =>
              /\ b.MaximumHeight = g.MaximumHeight
              /\ b.BaseHeight = g.BaseHeight
              /\ b.VerifierIDs = g.VerifierIDs
              /\ b.ParentBlockID = g.ParentBlockID

\* C25 as the code has it: MaximumHeight, BaseHeight and VerifierIDs of every
\* stored block are those of the genesis block of its chain, and ParentBlockID
\* is empty in every appended block (so it is the genesis block's only on a
\* chain without a parent), whatever the client wrote into the appended block.
C25_InheritedNoParent ==
    \A n \in Nodes : \A id \in DOMAIN Sbm[n] :
        LET b == Sbm[n][id]
            g == GenesisOf(n, b)
        IN g # NoBlock =>
              /\ b.MaximumHeight = g.MaximumHeight
              /\ b.BaseHeight = g.BaseHeight
              /\ b.VerifierIDs = g.VerifierIDs
              /\ b.Index > 0 => IsNull(b.ParentBlockID)

\* A block appended to the child chain, sent with heights, verifiers and a
\* parent that are not the chain's, is stored on every conode.
C25_Witness ==
    /\ calls[1].pc = "done" /\ calls[1].err = NoError
    /\ ~IsNull(calls[1].LatestID)
    /\ calls[1].NewBlock.MaximumHeight = 3
    /\ calls[1].NewBlock.VerifierIDs = <<"VerifyTest">>
    /\ IsNull(calls[1].NewBlock.ParentBlockID)
    /\ calls[1].reply.Latest.Index = 2
    /\ ~IsNull(SkipChainID(calls[1].reply.Latest).ParentBlockID)
    /\ SkipChainID(calls[1].reply.Latest).VerifierIDs = <<"VerifyBase">>
    /\ \A m \in Nodes : calls[1].reply.Latest.Hash \in DOMAIN Sbm[m]

\* A step of SettingAuthentication (request slot 2 of SpecSetting).
SettingStep == calls'[1] = calls[1] /\ Clients' = Clients

\* A key of a client linked to conode n verifies sig over the byte of level.
LinkedSigner(n, level, sig) ==
    \E i \in 1..Len(Clients[n]) : VerifySchnorr(Clients[n][i], LevelByte(level), sig)

FollowStep == calls'[1] = calls[1]

\* The last blocks of the replies the conodes asked by the request give, as
\* far as they are of the chain asked for.
FollowAnswers(req) ==
    LET answers == {GetUpdateChain(si, req.SkipchainID).Update :
                       si \in AskedConodes(req.node, req.SearchPolicy, req.Conode)}
    IN {r[Len(r)] : r \in {x \in answers : x # <<>>
                                             /\ SkipChainID(x[Len(x)]) = req.SkipchainID}}

FollowsByID(c) ==
    SkipChainID(calls[c].prop) \in Range(FollowIDs[Head(calls[c].queue)])

\* C28: a new roster member that has the id of the chain in its FollowIDs
\* accepts the roster-extension query for that chain: the request goes on to
\* the next member or to the signing round, so that an append refused before
\* the registration passes this member when it is sent again after it.
C28_FollowIDsAccept ==
    [][\A c \in Calls :
          (calls[c].pc = "er" /\ calls'[c] # calls[c] /\ FollowsByID(c)) =>
             /\ calls'[c].pc \in {"er", "fwd"}
             /\ calls'[c].err = NoError]_vars

\* The block k level-0 forward links after b in the store sbm, NoBlock when a
\* link is missing or its target is not stored.
RECURSIVE Hop(_, _, _)
Hop(sbm, b, k) ==
    IF k = 0 \/ b = NoBlock THEN b
    ELSE IF GetForwardLen(b) = 0 THEN NoBlock
    ELSE Hop(sbm, GetByID(sbm, b.ForwardLink[1].Hash), k - 1)

\* The hops from the start block of request req that reach a block with the
\* index asked for.
HopsToIndex(req) ==
    {k \in 0..Cardinality(DOMAIN Sbm[req.node]) :
        LET b == Hop(Sbm[req.node], GetByID(Sbm[req.node], req.Genesis), k)
        IN b # NoBlock /\ b.Index = req.Index}

\* C29: GetSingleBlockByIndex replies the first block with the index on the
\* path of level-0 forward links from the given block, and replies the error
\* BlockNotFound in every other case (start block unknown, no block with the
\* index, a forward link whose target the conode does not store); the
\* handler never crashes.
C29_ByIndex ==
    [][(calls'[1] = calls[1]) =>
          LET req == calls'[2]
              hops == HopsToIndex(req)
          IN /\ req.pc = "done"
             /\ IF hops # {}
                THEN /\ req.err = NoError
                     /\ req.reply = Hop(Sbm[req.node], GetByID(Sbm[req.node], req.Genesis),
                                        CHOOSE k \in hops : \A l \in hops : k <= l)
                ELSE req.err = ErrorBlockNotFound]_vars

\* Request c holds the append lock of its conode.
HoldsLock(c) ==
    /\ calls[c].pc \notin {"idle", "checked", "done", "crashed"}
    /\ LockKey(calls[c]) \in newBlocks[calls[c].node]

\* C30: every StoreSkipBlock call that acquired the append lock eventually
\* returns and releases it, also when a queried new roster member or a
\* co-signer never answers: IsPropagating becomes false again.
C30_LockReleased ==
    \A c \in Calls :
        HoldsLock(c) ~> (calls[c].pc = "done" /\ newBlocks[calls[c].node] = {})

\* ------------------------------------------------------------------ overlapping requests
\* Two clients talk to the leader R0 at the same time: each starts a chain of
\* its own with the roster <<R0, R1>> (told apart by Data) or appends to a
\* block of any chain, also to the block the other client appends to.
NextFlight ==
    \/ \E c \in {1, 2} :
          /\ \A id \in StoredIDs : id.Index # 0 \/ id.Data # c
          /\ StoreSkipBlockEnter(c, 0, NullID, NewSkipBlock(<<0, 1>>, c, 1, 1, NullID), NoSig)
    \/ \E c \in {1, 2}, id \in AppendTargets(MaxFlightIndex) :
          StoreSkipBlockEnter(c, 0, id, NewSkipBlock(<<0, 1>>, 0, 0, 0, NullID), NoSig)
    \/ \E c \in {1, 2} : NewBlockStart(c)
    \/ \E c \in {1, 2} : AddForwardLinkStart(c)
    \/ \E c \in {1, 2}, m \in Nodes : BftVerifyNewBlock(c, m)
    \/ \E c \in {1, 2} : BftNewBlockDone(c)
    \/ \E c \in {1, 2} : AddForwardLinkAttach(c)
    \/ \E c \in {1, 2}, m \in Nodes : PropagateFromRoot(c, m)
    \/ \E c \in {1, 2} : StoreSkipBlockReply(c)

SpecFlight == Init /\ [][NextFlight]_vars

\* A StoreSkipBlock is executing on conode n.
Executing(c, n) ==
    /\ IsStoreCall(calls[c])
    /\ calls[c].node = n
    /\ calls[c].pc \notin {"idle", "done"}

\* Call c takes the step of newBlockStart while an append is in flight on
\* its conode.
MeetsLock(c) ==
    /\ calls[c].pc = "checked"
    /\ calls'[c].pc # "checked"
    /\ newBlocks[calls[c].node] # {}

\* C31: the set of in-flight appends of a conode never holds more than one
\* entry and is empty when no StoreSkipBlock is executing on the conode; a
\* StoreSkipBlock, for a new chain or for an append to any chain, that comes
\* to the lock while another one is in flight on the conode returns
\* BlockInProgress, and neither the stores, the follow lists, the clients,
\* the level nor the set of in-flight appends change.
C31_SingleFlight ==
    [][/\ \A n \in Nodes :
            /\ Cardinality(newBlocks'[n]) <= 1
            /\ (\A c \in Calls : ~Executing(c, n)') => newBlocks'[n] = {}
       /\ \A c \in Calls :
            MeetsLock(c) =>
               /\ calls'[c].pc = "done"
               /\ calls'[c].err = ErrorBlockInProgress
               /\ calls'[c].reply = NoBlock
               /\ UNCHANGED <<Sbm, Follow, FollowIDs, AuthSkipchain, newBlocks, Clients>>
               /\ \A d \in Calls \ {c} : calls'[d] = calls[d]]_vars

\* A client that starts a chain is told BlockInProgress while an append to
\* another chain is in flight on R0.
C31_Witness ==
    /\ calls[1].pc = "done"
    /\ calls[1].err = ErrorBlockInProgress
    /\ IsNull(calls[1].LatestID)
    /\ Executing(2, 0)
    /\ ~IsNull(calls[2].LatestID)
    /\ newBlocks[0] = {calls[2].prev}
    /\ SkipChainID(Sbm[0][calls[2].prev]) # SkipChainID(calls[1].prop)

\* ------------------------------------------------------------------ the replies of a query
\* TestER: the root of the tree of a roster-extension query has the replies
\* of its children before it, one of each child asked: without a signature,
\* with the child's signature over Genesis, or with a signature of another
\* key or over another id. calls[1].msg holds the replies and
\* calls[1].Update the list the handler sends to ERReply.
ERReplies(genesis) ==
    LET sigs == {NoSig, SignSchnorr(NodeKey(0), genesis)}
                \cup {SignSchnorr(NodeKey(si), m) : si \in {1, 2}, m \in {genesis, [rnd |-> 1]}}
    IN {<<>>}
       \cup {<<[SI |-> si, Signature |-> sig]>> : si \in {1, 2}, sig \in sigs}
       \cup {<<[SI |-> o[1], Signature |-> g[1]], [SI |-> o[2], Signature |-> g[2]]>> :
                o \in {<<1, 2>>, <<2, 1>>}, g \in sigs \X sigs}

InitReply ==
    /\ Init!1 /\ Init!2 /\ Init!3 /\ Init!4 /\ Init!5 /\ Init!6 /\ Init!8 /\ Init!9 /\ Init!10
    /\ \E reply \in ERReplies([rnd |-> 0]) :
          calls = [c \in Calls |->
                     IF c = 1
                     THEN [IdleCall EXCEPT !.pc = "er", !.Genesis = [rnd |-> 0], !.msg = reply]
                     ELSE IdleCall]

ExtendRosterReplied ==
    /\ calls[1].pc = "er"
    /\ calls[1].msg \in ERReplies(calls[1].Genesis)
    /\ calls' = [calls EXCEPT ![1] =
                   [calls[1] EXCEPT !.pc = "done",
                                    !.Update = HandleExtendRosterReply(calls[1].Genesis, calls[1].msg)]]
    /\ UNCHANGED <<Sbm, Follow, FollowIDs, AuthSkipchain, newBlocks, Clients, ht, blockRequests, replies>>

SpecReply == InitReply /\ [][ExtendRosterReplied]_vars

\* The reply of a child that the leader cannot use.
BadReply(r, genesis) ==
    r.Signature = NoSig \/ ~VerifySchnorr(NodeKey(r.SI), genesis, r.Signature)

\* C32: the list handed to the leader is empty, or it holds for every child
\* asked, in the order of the replies, the child's valid signature over
\* Genesis and nothing else; it is empty whenever a reply has no signature
\* or a signature that does not verify under that child's key.
C32_AllOrNothing ==
    calls[1].pc = "done" /\ calls[1].msg \in ERReplies(calls[1].Genesis) =>
       LET reply == calls[1].msg
           sigs == calls[1].Update
           genesis == calls[1].Genesis
       IN /\ \/ sigs = <<>>
             \/ /\ Len(sigs) = Len(reply)
                /\ \A i \in 1..Len(sigs) :
                      /\ sigs[i].SI = reply[i].SI
                      /\ sigs[i].Signature = reply[i].Signature
                      /\ VerifySchnorr(NodeKey(sigs[i].SI), genesis, sigs[i].Signature)
          /\ (\E i \in 1..Len(reply) : BadReply(reply[i], genesis)) => sigs = <<>>

\* Two children have answered with their signatures and the leader gets both.
C32_Witness ==
    /\ calls[1].pc = "done"
    /\ Len(calls[1].msg) = 2
    /\ calls[1].msg \in ERReplies(calls[1].Genesis)
    /\ Len(calls[1].Update) = 2
    /\ \A i \in 1..2 : ~BadReply(calls[1].msg[i], calls[1].Genesis)

\* ------------------------------------------------------------------ refreshed follow lists
\* TestService_AddFollow: R0 starts two chains with the roster <<R0>>; before
\* the chains grow, R1 is made to follow the first chain and R2 either chain
\* by a lookup at R0.
\* Then R0 takes R1 into the roster of the first chain, R1 leads the next
\* block and takes R2 in, and R0 takes R2 into the second chain. An answer to
\* the refresh of a followed block may come too late. Every request is signed
\* by the conode it is sent to.
NextRefresh ==
    \/ \E d \in {1, 2} :
          /\ d = Cardinality(GenesisIDs) + 1
          /\ StoreSkipBlockEnter(1, 0, NullID, RosterGenesis(d),
                                 SignSchnorr(NodeKey(0), CalculateHash(RosterGenesis(d))))
    \/ \E n \in {0, 1}, id \in AppendTargets(MaxRefreshIndex) :
          \E r \in (IF (IF IsNull(id.GenesisID) THEN id ELSE id.GenesisID).Data = 2 THEN IF n = 0 THEN {<<0, 2>>} ELSE {} ELSE IF n = 0 THEN {<<0, 1>>} ELSE {<<1, 0, 2>>}) :
             StoreSkipBlockEnter(1, n, id, NewSkipBlock(r, 0, 0, 0, NullID),
                                 SignSchnorr(NodeKey(n), CalculateHash(NewSkipBlock(r, 0, 0, 0, NullID))))
    \/ NewBlockStart(1)
    \/ \E lost \in SUBSET (1..MaxFollow) : HandleExtendRoster(1, lost)
    \/ ExtendRosterAnswer(1)
    \/ AddForwardLinkStart(1)
    \/ \E m \in Nodes : BftVerifyNewBlock(1, m)
    \/ BftNewBlockDone(1)
    \/ AddForwardLinkAttach(1)
    \/ \E m \in Nodes : PropagateDeliver(1, m)
    \/ StoreSkipBlockReply(1)
    \/ \E id \in GenesisIDs, m \in {1, 2} :
          /\ StoredIDs = GenesisIDs
          /\ m = 1 => id.Data = 1
          /\ Len(Follow[m]) < MaxFollow
          /\ AddFollow(2, m, id, 2, 0, NoSig)

SpecRefresh == InitRoster /\ [][NextRefresh]_vars

\* Call c is answered by the conode it asks whether it accepts the roster.
Answered(c) == calls[c].pc = "er" /\ calls'[c] # calls[c]

C34_Refresh ==
    [][\A c \in Calls :
         Answered(c) =>
            LET si == Head(calls[c].queue)
                old == Follow[si]
                new == Follow'[si]
                lost == calls'[c].pend
                got(i) == HandleGetUpdate(old[i].Roster[1], old[i].Hash)
            IN /\ Len(new) = Len(old)
               /\ \A i \in 1..Len(old) :
                     new[i] = IF i \notin lost /\ got(i) # NoBlock THEN got(i) ELSE old[i]
               /\ calls'[c].pc = "erReply"
               /\ calls'[c].fs.Signature # NoSig <=>
                     \E i \in 1..Len(new) : calls[c].node \in Range(new[i].Roster)
               /\ (\E i \in 1..Len(old) :
                      /\ i \notin lost
                      /\ got(i) # NoBlock
                      /\ calls[c].node \in Range(got(i).Roster))
                  => calls'[c].fs.Signature # NoSig]_vars

\* R2 followed the first chain when R0 was alone in its roster; asked by R1,
\* which came into the roster later, it has put the latest block into its
\* follow list and signed.
C34_Witness ==
    /\ calls[1].pc = "erReply"
    /\ calls[1].node = 1
    /\ calls[1].fs.SI = 2
    /\ calls[1].fs.Signature # NoSig
    /\ calls[1].pend = {}
    /\ Len(Follow[2]) = 1
    /\ Follow[2][1].Index >= 1
    /\ 1 \notin Range(Sbm[0][SkipChainID(Follow[2][1])].Roster)

\* ------------------------------------------------------------------ messages with several blocks
\* R2 starts a chain with the roster <<R2>>, R0 a root chain with the roster
\* <<R0>> and then a child chain of it whose roster takes in R1 and R2; R1
\* may be made to follow one of the chains by a lookup at its leader. The
\* propagation of the child chain carries the parent and the new block.
NextBatch ==
    \/ \E n \in {0, 2} :
          /\ \A id \in GenesisIDs : id.Roster # <<n>>
          /\ StoreSkipBlockEnter(1, n, NullID, NewSkipBlock(<<n>>, n, 1, 1, NullID),
                                 SignSchnorr(NodeKey(n), CalculateHash(NewSkipBlock(<<n>>, n, 1, 1, NullID))))
    \/ \E parent \in {id \in RootIDs : id.Roster = <<0>>}, r \in {<<0, 1>>, <<0, 1, 2>>} :
          /\ ChildIDs = {}
          /\ StoreSkipBlockEnter(1, 0, NullID, NewSkipBlock(r, 1, 1, 1, parent),
                                 SignSchnorr(NodeKey(0), CalculateHash(NewSkipBlock(r, 1, 1, 1, parent))))
    \/ NewBlockStart(1)
    \/ \E m \in Nodes : PropagateDeliver(1, m)
    \/ StoreSkipBlockReply(1)
    \/ \E id \in RootIDs :
          /\ Len(Follow[1]) < MaxFollow
          /\ AddFollow(2, 1, id, 2, id.Roster[1], NoSig)

SpecBatch == InitRoster /\ [][NextBatch]_vars

\* The store of conode m after a message whose blocks i.. are treated each
\* on its own: a block that fails a check is passed over and the next one is
\* looked at.
RECURSIVE StoreEach(_, _, _, _)
StoreEach(m, sbm, blocks, i) ==
    IF i > Len(blocks)
    THEN sbm
    ELSE IF VerifyForwardSignatures(blocks[i]) /\ blockIsFriendly(m, sbm, blocks[i])
         THEN StoreEach(m, Store(sbm, blocks[i]), blocks, i + 1)
         ELSE StoreEach(m, sbm, blocks, i + 1)

\* C35: a conode that receives a propagation message stores every block of
\* it that has valid forward signatures and is friendly, and no block that
\* fails one of the two checks, wherever the block stands in the message.
C35_EachOnItsOwn ==
    [][\A c \in Calls, m \in Nodes :
         /\ calls[c].pc \in {"prop", "propF"}
         /\ m \in calls[c].pend
         /\ m \notin calls'[c].pend
         => Sbm'[m] = StoreEach(m, Sbm[m], calls[c].msg, 1)]_vars

\* ------------------------------------------------------------------ fetch waiters
\* R0 starts a chain with the roster <<R0, R1, R2>>, BaseHeight 2 and
\* MaximumHeight 2 and appends a block with the roster <<R0, R1>>, and R1
\* appends blocks with the roster <<R1>>. Two clients ask R2 for the update
\* chain of the genesis block, each of them once, maybe at the same time and
\* maybe while the last append is under way; once a client has asked, no new
\* append starts. An answer to a GetBlock message may take longer than the
\* timeout of callGetBlock.
NextFetch ==
    \/ /\ StoredIDs = {}
       /\ StoreSkipBlockEnter(1, 0, NullID, NewSkipBlock(<<0, 1, 2>>, 0, 2, 2, NullID), NoSig)
    \/ \E id \in AppendTargets(MaxFetchIndex) :
          /\ ~(\E c \in {1, 2} : IsUpdateCall(calls[c]))
          /\ LET r == IF id.Index = 0 THEN <<0, 1>> ELSE <<1>>
             IN StoreSkipBlockEnter(1, r[1], id, NewSkipBlock(r, 0, 0, 0, NullID), NoSig)
    \/ NewBlockStart(1)
    \/ AddForwardLinkStart(1)
    \/ \E m \in Nodes : BftVerifyNewBlock(1, m)
    \/ BftNewBlockDone(1)
    \/ AddForwardLinkAttach(1)
    \/ BackfillStart(1)
    \/ \E m \in Nodes : BftVerifyFollowBlock(1, m)
    \/ BftFollowBlockDone(1)
    \/ ForwardSignatureDone(1)
    \/ \E m \in Nodes : PropagateFromRoot(1, m)
    \/ StoreSkipBlockReply(1)
    \/ \E c \in {1, 2}, id \in GenesisIDs :
          /\ calls[c].pc \in {"idle", "done"}
          /\ ~IsUpdateCall(calls[c])
          /\ GetUpdateChainEnter(c, 2, id)
    \/ \E c \in {1, 2} : CallGetBlockLock(c)
    \/ \E c \in {1, 2} : GetBlock(c)
    \/ \E c \in {1, 2} : GetBlockRecurse(c)
    \/ \E i \in DOMAIN replies : getBlockReply(i)
    \/ \E i \in DOMAIN replies : GetBlockReplyLock(i)
    \/ \E i \in DOMAIN replies : GetBlockReplySend(i)
    \/ \E c \in {1, 2} : CallGetBlockEnd(c)
    \/ \E c \in {1, 2} : GetBlockLate(c)

SpecFetch == Init /\ [][NextFetch]_vars

\* The getBlockReply handler of message i takes its first step.
Handles(i) ==
    /\ replies[i].pc = "sent"
    /\ \/ Len(replies') = Len(replies) /\ replies'[i] # replies[i]
       \/ replies' = SubSeq(replies, 1, i - 1) \o SubSeq(replies, i + 1, Len(replies))

\* C36: a block that comes in a GetBlockReply and fails VerifyLinks on the
\* conode that receives it is dropped: the store of no conode changes, no
\* call gets the block, and the message is gone.
C36_VerifiedOnly ==
    [][\A i \in DOMAIN replies :
          (Handles(i) /\ ~VerifyLinks(Sbm[replies[i].to], replies[i].SkipBlock)) =>
              /\ Sbm' = Sbm
              /\ calls' = calls
              /\ Len(replies') < Len(replies)]_vars

\* Call c is in callGetBlock on conode n for block id, between the
\* registration of its channel and the removal of the entry.
Waiting(c, n, id) ==
    /\ calls[c].pc \in {"fetch", "recurse", "reply", "clean"}
    /\ calls[c].node = n
    /\ calls[c].prev = id

\* C37: on every conode blockRequests has an entry under id iff a
\* callGetBlock for id is under way there, and the entry is the channel of
\* every such call; a callGetBlock that ends without a block makes
\* GetUpdateChain return BlockNotFound.
C37_Waiters ==
    /\ [](\A n \in Nodes, id \in StoredIDs :
             /\ id \in DOMAIN blockRequests[n] <=> \E c \in Calls : Waiting(c, n, id)
             /\ \A c \in Calls : Waiting(c, n, id) =>
                   /\ id \in DOMAIN blockRequests[n]
                   /\ blockRequests[n][id] = c)
    /\ [][\A c \in Calls :
             (calls[c].pc = "clean" /\ calls[c].fs = NoBlock /\ calls'[c] # calls[c]) =>
                 /\ calls'[c].pc = "done"
                 /\ calls'[c].err = ErrorBlockNotFound]_vars

\* C38: a getBlockReply handler that holds the mutex of the waiters finds a
\* channel under the id of its block, and the callGetBlock of that channel
\* is in its select; otherwise the send of the handler never ends and no
\* callGetBlock gets the mutex again.
C38_NeverStuck ==
    \A i \in DOMAIN replies :
        replies[i].pc = "send" =>
            LET n == replies[i].to
                id == replies[i].SkipBlock.Hash
            IN /\ id \in DOMAIN blockRequests[n]
               /\ InSelect(blockRequests[n][id], n, id)

\* ------------------------------------------------------------------ failed requests
\* startPropagation handing on the error of s.propagate: the propagation
\* of the network library fails before it delivers the message to any
\* conode, and StoreSkipBlock returns "Couldn't propagate new blocks".
StartPropagationError(c) ==
    LET call == calls[c]
    IN
    /\ call.pc = "prop"
    /\ call.pend # {}
    /\ call.pend = RosterUnion(call.msg)
    /\ calls' = [calls EXCEPT ![c] = Return(call, ErrorVerification, "Couldn't propagate new blocks", NoBlock)]
    /\ newBlocks' = newBlockEnd(newBlocks, call.node, LockKey(call))
    /\ UNCHANGED <<Sbm, Follow, FollowIDs, AuthSkipchain, Clients, ht, blockRequests, replies>>

\* R0 starts a root chain with R1 or with R1 and R2, then starts child
\* chains of the root block and appends a block to it, one request at a
\* time; a propagation may fail as long as the root block names at most
\* MaxAborts child chains.
NextAbort ==
    \/ \E r \in ({<<0, 1>>, <<0, 1, 2>>}) :
          /\ StoredIDs = {}
          /\ StoreSkipBlockEnter(1, 0, NullID, NewSkipBlock(r, 0, 1, 1, NullID), NoSig)
    \/ \E parent \in RootIDs :
          /\ ChildIDs = {}
          /\ StoreSkipBlockEnter(1, 0, NullID, NewSkipBlock(<<0, 1>>, 1, 1, 1, parent), NoSig)
    \/ \E id \in RootIDs :
          StoreSkipBlockEnter(1, 0, id, NewSkipBlock(id.Roster, 0, 0, 0, NullID), NoSig)
    \/ ChildStep
    \/ /\ \A id \in DOMAIN Sbm[calls[1].node] :
             Len(Sbm[calls[1].node][id].ChildSL) <= MaxAborts
       /\ StartPropagationError(1)

SpecAbort == Init /\ [][NextAbort]_vars

\* Call c is a StoreSkipBlock past its precondition checks: it holds the
\* lock of its chain.
PastChecks(c) ==
    calls[c].pc \in {"er", "erReply", "fwd", "bft0", "attach", "bf", "bftF", "propF", "prop"}

\* C39: a StoreSkipBlock that returns an error after its precondition
\* checks leaves the store of its conode as it was before the call: the
\* block it appends to has no forward link to the new block, and the parent
\* block does not name the new block in ChildSL.
C39_StoreAsBefore ==
    [][\A c \in Calls :
          (PastChecks(c) /\ calls'[c].pc = "done" /\ calls'[c].err # NoError) =>
              LET call == calls[c]
                  sbm == Sbm'[call.node]
                  parent == GetByID(sbm, call.prop.ParentBlockID)
              IN /\ ~IsNull(call.LatestID) =>
                       \A i \in DOMAIN sbm[call.prev].ForwardLink :
                           sbm[call.prev].ForwardLink[i].Hash # call.prop.Hash
                 /\ (IsNull(call.LatestID) /\ parent # NoBlock) =>
                       call.prop.Hash \notin Range(parent.ChildSL)]_vars

\* ------------------------------------------------------------------ forward links of the client
\* R0 starts a chain of height 1 with R1 and appends blocks to it. The
\* append branch of StoreSkipBlock leaves the ForwardLink field of the new
\* block as the client sent it: the client leaves it empty, or fills it
\* with one or two copies of a forward link of a block of the chain.
NextReplay ==
    \/ /\ StoredIDs = {}
       /\ StoreSkipBlockEnter(1, 0, NullID, NewSkipBlock(<<0, 1>>, 0, 1, 1, NullID), NoSig)
    \/ \E id \in AppendTargets(MaxReplayIndex), d \in {0, 1} :
          LET links == UNION {Range(Sbm[0][b].ForwardLink) : b \in DOMAIN Sbm[0]}
          IN \E fl \in {<<>>} \cup {<<l>> : l \in links} \cup {<<l, l>> : l \in links} :
                StoreSkipBlockEnter(1, 0, id,
                    [NewSkipBlock(id.Roster, d, 0, 0, NullID) EXCEPT !.ForwardLink = fl],
                    NoSig)
    \/ NewBlockStart(1)
    \/ AddForwardLinkStart(1)
    \/ \E m \in Nodes : BftVerifyNewBlock(1, m)
    \/ BftNewBlockDone(1)
    \/ AddForwardLinkAttach(1)
    \/ \E m \in Nodes : PropagateFromRoot(1, m)
    \/ StoreSkipBlockReply(1)

SpecReplay == Init /\ [][NextReplay]_vars

\* Call c attaches the forward link of its back-fill at height calls[c].h.
BackfillAccepted(c) ==
    /\ calls[c].pc \in {"bf", "bftF"}
    /\ calls'[c].pc = "propF"

\* C40: every stored block has at most Height forward links, and a back-fill
\* at TargetHeight h is accepted only for a block with fewer than h + 1
\* forward links: a conode agrees to sign only when its copy of the target
\* has fewer, and the link is attached only to a target with fewer.
C40_LinksWithinHeight ==
    /\ [](\A n \in Nodes : \A id \in DOMAIN Sbm[n] :
             GetForwardLen(Sbm[n][id]) <= Sbm[n][id].Height)
    /\ [][\A c \in Calls :
             /\ BackfillAccepted(c) =>
                   GetForwardLen(Sbm[calls[c].node][calls[c].prop.BackLinkIDs[calls[c].h + 1]])
                       < calls[c].h + 1
             /\ (calls[c].pc = "bftF" /\ calls'[c].pc = "bftF") =>
                   \A m \in calls'[c].yes \ calls[c].yes :
                       GetForwardLen(Sbm[m][calls[c].prop.BackLinkIDs[calls[c].h + 1]])
                           < calls[c].h + 1]_vars

====
